---- MODULE Spec2Model ----
(***************************************************************************)
(* Model of the bet-wise trading engine (rust-trading-engine):             *)
(*   - models/order.rs, models/market.rs   orders and the order book       *)
(*   - services/matching_engine.rs         price-time priority matching    *)
(*   - models/balance.rs, services/balance_service.rs   the balance ledger *)
(*   - services/order_service.rs           submit / cancel                 *)
(* Money is counted in cents: a price is an integer number of cents per    *)
(* share, one share obligation is Unit cents.                              *)
(***************************************************************************)
EXTENDS Integers, Sequences, FiniteSets, TLC

\* ------------------------------------------------------------------ bounds
MaxOrders == 3          \* orders handed to the matching engine in one behaviour
MaxQty == 2             \* largest order quantity drawn
MaxLedgerOps == 3       \* ledger calls in one behaviour
MaxSubmits == 2         \* orders submitted to the order service in one behaviour
MaxDeposits == 2        \* deposits made around the order service in one behaviour
MaxCreates == 1         \* create_market calls in one behaviour
MaxSvcQty == 1          \* largest quantity of an order sent to the order service
MaxTrades == 2          \* rows of table trades in one behaviour
MaxSettles == 2         \* resolve_market and cancel_market calls in one behaviour
MaxConcSettles == 3     \* interleaved settlement calls in one behaviour
MaxRecreates == 1       \* create_market calls with an id that already exists
ChanCapacity == 2                    \* capacity of the trade channel (100 in the code)
MaxWsOrders == 4                     \* orders sent to the engine while the event task runs
MaxPayoutCalls == 2                  \* the process_payout call of a resolution that can fail
MaxBotLoops == 2                     \* run_bot_loop tasks spawned in one behaviour
MaxBookOrders == 2      \* orders created in one behaviour of the order book

Users == {"A", "B"}
Prices == {40, 60}
Qtys == 0 .. MaxQty
Sides == {"Buy", "Sell"}
Outcomes == {"Yes", "No"}
LedgerAmounts == {-50, 0, 50, 100}   \* cents
RefIds == {1}                        \* order ids a ledger call may reference
MarketId == "m1"
Callers == {"p1", "p2"}
DepositAmounts == {200}              \* cents
Unit == 100                          \* one share, in cents
SvcOutcomes == {"Yes"}               \* outcomes of the orders sent to the order service
SvcQtys == 0 .. MaxSvcQty            \* quantities of the orders sent to the order service

VARIABLES
    market,       \* the Market handed to MatchingEngine::process_order
    eng_trades,   \* every Trade the engine has produced, in order
    eng_last,     \* the last engine call: its input, the book before, its result
    eng_n,        \* orders created so far for the engine
    db_balances,  \* table user_balances: user -> row
    db_tx,        \* table balance_transactions, in insertion order
    led_n,        \* ledger calls started so far
    led_proc,     \* the ledger calls in flight: caller -> its position and locals
    led_batch,    \* the calls that overlapped since all callers were last idle
    db_market,    \* table markets: the row of market MarketId
    db_orders,    \* table orders: order id -> row
    db_trades,    \* table trades
    markets,      \* OrderService::markets, the entry of MarketId
    markets_cache,\* OrderService::markets_cache, the entry of MarketId
    svc_n,        \* orders created so far by callers of the order service
    svc_cnt,      \* deposits and create_market calls made so far
    svc_last,     \* the last submit_order or cancel_order call and the tables before it
    sub_proc,     \* the submit_order calls in flight: caller -> its position and locals
    sub_batch,    \* the submit_order calls that overlapped, and the tables before them
    matching_engine,  \* OrderService::matching_engine, the Mutex: its holder or "free"
    set_n,        \* resolve_market and cancel_market calls started so far
    set_last,     \* the last settlement call and the tables before it
    set_proc,     \* the settlement calls in flight: caller -> its position and locals
    trade_chan,   \* the mpsc channel of get_trade_receiver: the trades sent and not yet received
    ws_events,    \* every event handed to the broadcast channel, in order
    ws_task,      \* the task spawned by get_trade_receiver: its position and the trade it holds
    active_bots,  \* BotService::active_bots, the entry of MarketId
    bot_loops,    \* the run_bot_loop tasks spawned so far: their position and strategy
    bot_last      \* the last start_bot or stop_bot call and its result

ws_vars == <<trade_chan, ws_events, ws_task>>
bot_vars == <<active_bots, bot_loops, bot_last>>
eng_vars == <<market, eng_trades, eng_last, eng_n, trade_chan, ws_events, ws_task,
              active_bots, bot_loops, bot_last>>
led_vars == <<db_balances, db_tx, led_n, led_proc, led_batch>>
conc_vars == <<sub_proc, sub_batch, matching_engine>>
set_vars == <<set_n, set_last, set_proc>>
svc_vars == <<db_market, db_orders, db_trades, markets, markets_cache, svc_n, svc_cnt,
              svc_last, sub_proc, sub_batch, matching_engine, set_n, set_last, set_proc>>
vars == <<market, eng_trades, eng_last, eng_n, db_balances, db_tx, led_n, led_proc,
          led_batch, db_market, db_orders, db_trades, markets, markets_cache, svc_n,
          svc_cnt, svc_last, sub_proc, sub_batch, matching_engine, set_n, set_last,
          set_proc, trade_chan, ws_events, ws_task, active_bots, bot_loops, bot_last>>

\* ------------------------------------------------------------------ helpers
FirstOf(a, b) == a

Min(a, b) == IF a <= b THEN a ELSE b

RemoveAt(s, i) == SubSeq(s, 1, i - 1) \o SubSeq(s, i + 1, Len(s))

\* The elements of a set of integers as an ascending sequence (BTreeMap::keys).
RECURSIVE KeysAsc(_)
KeysAsc(S) ==
    IF S = {} THEN << >>
    ELSE LET m == CHOOSE x \in S : \A y \in S : x <= y
         IN <<m>> \o KeysAsc(S \ {m})

RECURSIVE Reverse(_)
Reverse(s) == IF s = << >> THEN << >> ELSE Reverse(Tail(s)) \o <<Head(s)>>

\* take_while(|p| p <= limit) and take_while(|p| p >= limit) over a sequence
RECURSIVE TakeWhileLe(_, _)
TakeWhileLe(s, limit) ==
    IF s = << >> \/ ~(Head(s) <= limit) THEN << >>
    ELSE <<Head(s)>> \o TakeWhileLe(Tail(s), limit)

RECURSIVE TakeWhileGe(_, _)
TakeWhileGe(s, limit) ==
    IF s = << >> \/ ~(Head(s) >= limit) THEN << >>
    ELSE <<Head(s)>> \o TakeWhileGe(Tail(s), limit)

\* ------------------------------------------------------------------ models/order.rs
NewOrder(id, user, side, outcome, price, quantity) ==
    [order_id |-> id, user_id |-> user, side |-> side, outcome |-> outcome,
     price |-> price, quantity |-> quantity, remaining_quantity |-> quantity,
     status |-> "Open"]

is_active(o) == o.status \in {"Open", "PartiallyFilled"}

apply_fill_skip_status(o, fill_quantity) ==
    IF fill_quantity >= o.remaining_quantity
    THEN [o EXCEPT !.remaining_quantity = 0]
    ELSE [o EXCEPT !.remaining_quantity = @ - fill_quantity]

apply_fill(o, fill_quantity) ==
    IF fill_quantity >= o.remaining_quantity
    THEN [o EXCEPT !.remaining_quantity = 0, !.status = "Filled"]
    ELSE [o EXCEPT !.remaining_quantity = @ - fill_quantity,
                   !.status = "PartiallyFilled"]

\* ------------------------------------------------------------------ models/market.rs
\* A BTreeMap<Decimal, VecDeque<Order>>: a function whose domain is the set of keys.
EmptyMap == [p \in {} |-> << >>]

MapRemove(m, p) == [q \in (DOMAIN m) \ {p} |-> m[q]]

MapSet(m, p, v) == [q \in (DOMAIN m) \cup {p} |-> IF q = p THEN v ELSE m[q]]

OrderBook_new ==
    [yes_bids |-> EmptyMap, yes_asks |-> EmptyMap,
     no_bids |-> EmptyMap, no_asks |-> EmptyMap]

BookFields == {"yes_bids", "yes_asks", "no_bids", "no_asks"}

\* The queue an order of (side, outcome) rests in.
OwnField(side, outcome) ==
    IF side = "Buy" THEN (IF outcome = "Yes" THEN "yes_bids" ELSE "no_bids")
    ELSE (IF outcome = "Yes" THEN "yes_asks" ELSE "no_asks")

add_order_front(book, order) ==
    IF ~is_active(order) THEN book
    ELSE LET f == OwnField(order.side, order.outcome)
             m == book[f]
             q == IF order.price \in DOMAIN m THEN m[order.price] ELSE << >>
         IN [book EXCEPT ![f] = MapSet(m, order.price, <<order>> \o q)]

add_order(book, order) ==
    IF ~is_active(order) THEN book
    ELSE LET f == OwnField(order.side, order.outcome)
             m == book[f]
             q == IF order.price \in DOMAIN m THEN m[order.price] ELSE << >>
         IN [book EXCEPT ![f] = MapSet(m, order.price, Append(q, order))]

\* remove_order scans yes_bids, yes_asks, no_bids, no_asks in that order and takes the
\* first order with the id; the price level stays in the map even when it empties.
ScanOrder == <<"yes_bids", "yes_asks", "no_bids", "no_asks">>

HoldsId(m, id) == \E p \in DOMAIN m : \E i \in 1 .. Len(m[p]) : m[p][i].order_id = id

FirstField(book, id) ==
    LET k == CHOOSE k \in 1 .. 4 :
                 /\ HoldsId(book[ScanOrder[k]], id)
                 /\ \A j \in 1 .. (k - 1) : ~HoldsId(book[ScanOrder[j]], id)
    IN ScanOrder[k]

InBook(book, id) == \E f \in BookFields : HoldsId(book[f], id)

remove_order(book, id) ==
    IF ~InBook(book, id) THEN [book |-> book, found |-> FALSE, order |-> << >>]
    ELSE LET f == FirstField(book, id)
             m == book[f]
             p == CHOOSE p \in DOMAIN m :
                      /\ \E i \in 1 .. Len(m[p]) : m[p][i].order_id = id
                      /\ \A p2 \in DOMAIN m :
                            (\E i \in 1 .. Len(m[p2]) : m[p2][i].order_id = id) => p <= p2
             pos == CHOOSE i \in 1 .. Len(m[p]) :
                      /\ m[p][i].order_id = id
                      /\ \A j \in 1 .. (i - 1) : m[p][j].order_id # id
         IN [book |-> [book EXCEPT ![f] = MapSet(m, p, RemoveAt(m[p], pos))],
             found |-> TRUE, order |-> m[p][pos]]

is_open(mk) == mk.status = "Open"

Market_new == [status |-> "Open", resolution |-> "None", order_book |-> OrderBook_new]

\* ------------------------------------------------------------------ models/trade.rs
Trade_new(buy_order_id, buyer_id, sell_order_id, seller_id, outcome, price, quantity) ==
    [buy_order_id |-> buy_order_id, buyer_id |-> buyer_id,
     sell_order_id |-> sell_order_id, seller_id |-> seller_id,
     outcome |-> outcome, price |-> price, quantity |-> quantity]

\* ------------------------------------------------------------------ services/matching_engine.rs
\* The queue a taker of (side, outcome) is matched against.
OppositeField(side, outcome) ==
    IF side = "Buy" THEN (IF outcome = "Yes" THEN "yes_asks" ELSE "no_asks")
    ELSE (IF outcome = "Yes" THEN "yes_bids" ELSE "no_bids")

\* The crossing levels walked from the worst price to the best.
matching_prices_worst_first(order, m) ==
    IF order.side = "Buy"
    THEN Reverse(TakeWhileLe(KeysAsc(DOMAIN m), order.price))
    ELSE Reverse(TakeWhileGe(Reverse(KeysAsc(DOMAIN m)), order.price))

no_matching_prices(order, m) == << >>

matching_prices(order, m) ==
    IF order.side = "Buy"
    THEN TakeWhileLe(KeysAsc(DOMAIN m), order.price)
    ELSE TakeWhileGe(Reverse(KeysAsc(DOMAIN m)), order.price)

\* The trade of a taker against a resting order, priced at the taker's limit.
MakeTradeAtTakerPrice(order, matching_order, price, match_quantity) ==
    IF order.side = "Buy"
    THEN Trade_new(order.order_id, order.user_id, matching_order.order_id,
                   matching_order.user_id, order.outcome, order.price, match_quantity)
    ELSE Trade_new(matching_order.order_id, matching_order.user_id, order.order_id,
                   order.user_id, order.outcome, order.price, match_quantity)

\* The trade of a taker against a resting order at level `price`.
MakeTrade(order, matching_order, price, match_quantity) ==
    IF order.side = "Buy"
    THEN Trade_new(order.order_id, order.user_id, matching_order.order_id,
                   matching_order.user_id, order.outcome, price, match_quantity)
    ELSE Trade_new(matching_order.order_id, matching_order.user_id, order.order_id,
                   order.user_id, order.outcome, price, match_quantity)

SameUserNever(matching_order, order) == FALSE

\* "Skip if same user"
SameUser(matching_order, order) == matching_order.user_id = order.user_id

\* The inner while loop over one price level, from index i (1-based).
RECURSIVE MatchLevel(_, _, _, _, _)
MatchLevel(order, q, i, price, trades) ==
    IF ~(i <= Len(q) /\ order.remaining_quantity > 0)
    THEN [order |-> order, q |-> q, trades |-> trades]
    ELSE LET matching_order == q[i] IN
         IF SameUser(matching_order, order)
         THEN MatchLevel(order, q, i + 1, price, trades)
         ELSE LET match_quantity == Min(order.remaining_quantity,
                                        matching_order.remaining_quantity)
                  hit == match_quantity > 0
                  order2 == IF hit THEN apply_fill(order, match_quantity) ELSE order
                  resting2 == IF hit THEN apply_fill(matching_order, match_quantity)
                              ELSE matching_order
                  trades2 == IF hit
                             THEN Append(trades, MakeTrade(order, matching_order,
                                                           price, match_quantity))
                             ELSE trades
              IN IF resting2.remaining_quantity = 0
                 THEN MatchLevel(order2, RemoveAt(q, i), i, price, trades2)
                 ELSE MatchLevel(order2, [q EXCEPT ![i] = resting2], i + 1, price, trades2)

\* The outer loop over matching_prices, from index k.
RECURSIVE MatchPrices(_, _, _, _, _)
MatchPrices(order, m, prices, k, trades) ==
    IF k > Len(prices) \/ order.remaining_quantity = 0
    THEN [order |-> order, m |-> m, trades |-> trades]
    ELSE LET price == prices[k] IN
         IF price \notin DOMAIN m
         THEN MatchPrices(order, m, prices, k + 1, trades)
         ELSE LET r == MatchLevel(order, m[price], 1, price, trades)
                  m2 == IF r.q = << >> THEN MapRemove(m, price)
                        ELSE MapSet(m, price, r.q)
              IN MatchPrices(r.order, m2, prices, k + 1, r.trades)

match_order(order, mk) ==
    LET f == OppositeField(order.side, order.outcome)
        r == MatchPrices(order, mk.order_book[f],
                         matching_prices(order, mk.order_book[f]), 1, << >>)
    IN [order |-> r.order,
        market |-> [mk EXCEPT !.order_book[f] = r.m],
        trades |-> r.trades]

\* MatchingResult plus the Market as process_order leaves it; `order` is the taker as
\* the call leaves it, `resting` tells whether remaining_order is Some.
process_order(order, mk) ==
    IF ~is_open(mk)
    THEN [order |-> [order EXCEPT !.status = "Rejected"], resting |-> TRUE,
          trades |-> << >>, market |-> mk]
    ELSE LET r == match_order(order, mk) IN
         IF r.order.remaining_quantity > 0 /\ is_active(r.order)
         THEN [order |-> r.order, resting |-> TRUE, trades |-> r.trades,
               market |-> [r.market EXCEPT
                              !.order_book = add_order(r.market.order_book, r.order)]]
         ELSE [order |-> r.order, resting |-> FALSE, trades |-> r.trades,
               market |-> r.market]

engine_cancel_order(order_id, mk) ==
    LET r == remove_order(mk.order_book, order_id) IN
    [market |-> [mk EXCEPT !.order_book = r.book],
     found |-> r.found,
     order |-> IF r.found THEN [r.order EXCEPT !.status = "Cancelled"] ELSE << >>]

\* ------------------------------------------------------------------ models/balance.rs
\* A row of user_balances; present = FALSE while the user has no row yet.
NoRow == [present |-> FALSE, available_balance |-> 0, reserved_balance |-> 0]

UserBalance_new(initial_balance) ==
    [present |-> TRUE, available_balance |-> initial_balance, reserved_balance |-> 0]

has_sufficient_funds_always(b, amount) == TRUE

has_sufficient_funds(b, amount) == b.available_balance >= amount

reserve_funds_keep_available(b, amount) ==
    IF ~has_sufficient_funds(b, amount) THEN [ok |-> FALSE, balance |-> b]
    ELSE [ok |-> TRUE, balance |-> [b EXCEPT !.reserved_balance = @ + amount]]

reserve_funds(b, amount) ==
    IF ~has_sufficient_funds(b, amount) THEN [ok |-> FALSE, balance |-> b]
    ELSE [ok |-> TRUE,
          balance |-> [b EXCEPT !.available_balance = @ - amount,
                                !.reserved_balance = @ + amount]]

release_funds_keep_reserved(b, amount) ==
    IF b.reserved_balance < amount THEN [ok |-> FALSE, balance |-> b]
    ELSE [ok |-> TRUE, balance |-> [b EXCEPT !.available_balance = @ + amount]]

release_funds(b, amount) ==
    IF b.reserved_balance < amount THEN [ok |-> FALSE, balance |-> b]
    ELSE [ok |-> TRUE,
          balance |-> [b EXCEPT !.reserved_balance = @ - amount,
                                !.available_balance = @ + amount]]

add_funds(b, amount) ==
    [ok |-> TRUE, balance |-> [b EXCEPT !.available_balance = @ + amount]]

withdraw_funds(b, amount) ==
    IF ~has_sufficient_funds(b, amount) THEN [ok |-> FALSE, balance |-> b]
    ELSE [ok |-> TRUE, balance |-> [b EXCEPT !.available_balance = @ - amount]]

BalanceTransaction_new(user_id, amount, transaction_type, reference_id) ==
    [user_id |-> user_id, amount |-> amount, transaction_type |-> transaction_type,
     reference_id |-> reference_id]

NoRef == "None"

\* ------------------------------------------------------------------ services/balance_service.rs
LedgerOps == {"add_funds", "withdraw_funds", "reserve_funds", "release_funds",
              "process_payout"}

\* A ledger call: the BalanceService method, its user, amount and reference.
LedgerCall(op, user, amount, ref) == [op |-> op, user |-> user, amount |-> amount, ref |-> ref]

\* The "Amount must be positive" check; process_payout has none.
ChecksAmount(op) == op # "process_payout"

RejectsAmount(call) == ChecksAmount(call.op) /\ call.amount <= 0

\* The UserBalance method a call applies to the balance it has read.
ApplyToBalance(call, b) ==
    CASE call.op = "add_funds" -> add_funds(b, call.amount)
      [] call.op = "withdraw_funds" -> withdraw_funds(b, call.amount)
      [] call.op = "reserve_funds" -> reserve_funds(b, call.amount)
      [] call.op = "release_funds" -> release_funds(b, call.amount)
      [] call.op = "process_payout" -> add_funds(b, call.amount)

TxType(op) ==
    CASE op = "add_funds" -> "Deposit"
      [] op = "withdraw_funds" -> "Withdraw"
      [] op = "reserve_funds" -> "OrderReserve"
      [] op = "release_funds" -> "OrderRelease"
      [] op = "process_payout" -> "SettlementPayout"

TxOf(call) ==
    BalanceTransaction_new(call.user, call.amount, TxType(call.op),
                           IF call.op \in {"add_funds", "withdraw_funds"} THEN NoRef
                           ELSE call.ref)

\* BalanceService::get_user_balance: the stored row, or a zero balance saved on the spot.
get_user_balance(bals, user) ==
    IF bals[user].present THEN bals
    ELSE [bals EXCEPT ![user] = UserBalance_new(0)]

\* One whole BalanceService call with no other call in between and no repository
\* failure: the tables afterwards and whether the call returned Ok.
LedgerRun(call, bals, tx) ==
    IF RejectsAmount(call) THEN [ok |-> FALSE, bals |-> bals, tx |-> tx]
    ELSE LET b1 == get_user_balance(bals, call.user)
             r == ApplyToBalance(call, b1[call.user])
         IN IF ~r.ok THEN [ok |-> FALSE, bals |-> b1, tx |-> tx]
            ELSE [ok |-> TRUE, bals |-> [b1 EXCEPT ![call.user] = r.balance],
                  tx |-> Append(tx, TxOf(call))]

\* ------------------------------------------------------------------ db/repository.rs
NoMarketRow == [present |-> FALSE]

NoOrders == [id \in {} |-> << >>]

\* save_market writes the scalar columns of the market (an upsert); the book is not stored.
save_market(mk) == [present |-> TRUE, status |-> mk.status, resolution |-> mk.resolution]

\* get_active_orders_for_market: "status < 3", that is Open, PartiallyFilled or Filled
ActiveIds(orders) ==
    {id \in DOMAIN orders : orders[id].status \in {"Open", "PartiallyFilled", "Filled"}}

\* The query has no ORDER BY: the rows come in some order, here the one given by `rank`
\* (a sequence naming every order id once).
RECURSIVE RowsInOrder(_, _)
RowsInOrder(orders, rank) ==
    IF rank = << >> THEN << >>
    ELSE (IF Head(rank) \in ActiveIds(orders) THEN <<orders[Head(rank)]>> ELSE << >>)
         \o RowsInOrder(orders, Tail(rank))

\* Market::from_db: the rows that are active are queued in the order they come
RECURSIVE from_db_book(_, _)
from_db_book(rows, book) ==
    IF rows = << >> THEN book
    ELSE from_db_book(Tail(rows),
                      IF is_active(Head(rows)) THEN add_order(book, Head(rows)) ELSE book)

from_db(row, rows) ==
    [status |-> row.status, resolution |-> row.resolution,
     order_book |-> from_db_book(rows, OrderBook_new)]

\* SqlxRepository::get_market
repo_get_market(row, orders, rank) ==
    IF ~row.present THEN [ok |-> FALSE]
    ELSE [ok |-> TRUE, market |-> from_db(row, RowsInOrder(orders, rank))]

Ranks == {r \in [1 .. MaxSubmits -> 1 .. MaxSubmits] : \A i, j \in 1 .. MaxSubmits : r[i] = r[j] => i = j}

\* ------------------------------------------------------------------ services/order_service.rs
\* markets_cache is a Vec<Market>; get_market and submit_order read and replace the first
\* entry of the market id only, so the entry of MarketId is all of it that is ever used.
NotCached == [present |-> FALSE]

Cached(mk) == [present |-> TRUE, market |-> mk]

\* The tables and caches an order-service call works on.
World == [bals |-> db_balances, tx |-> db_tx, orders |-> db_orders, mkt |-> db_market,
          cache |-> markets_cache]

\* OrderService::get_market
get_market(cache, row, orders, rank) ==
    IF cache.present THEN [ok |-> TRUE, market |-> cache.market, cache |-> cache]
    ELSE LET r == repo_get_market(row, orders, rank)
         IN IF r.ok THEN [ok |-> TRUE, market |-> r.market, cache |-> Cached(r.market)]
            ELSE [ok |-> FALSE, cache |-> cache]

calculate_reserve_amount(order) ==
    IF order.side = "Buy" THEN order.price * order.quantity
    ELSE Unit * order.quantity

\* The matching step of submit_order: the order is only queued.
submit_matching(order, mk) ==
    [market |-> [mk EXCEPT !.order_book = add_order(@, order)], was_matched |-> FALSE]

\* OrderService::submit_order, run without interruption and without repository failure.
\* ok: the call returned Ok; error: the OrderMatchResult carries an error.
submit_order(order, W, rank) ==
    LET amount == calculate_reserve_amount(order)
        reserve == LedgerCall("reserve_funds", order.user_id, amount, order.order_id)
        release == LedgerCall("release_funds", order.user_id, amount, order.order_id)
        rsv == LedgerRun(reserve, W.bals, W.tx)
    IN IF ~rsv.ok
       THEN [ok |-> FALSE, error |-> TRUE, was_matched |-> FALSE,
             W |-> [W EXCEPT !.bals = rsv.bals]]
       ELSE LET orders1 == MapSet(W.orders, order.order_id, order)
                got == get_market(W.cache, W.mkt, orders1, rank)
                rel == LedgerRun(release, rsv.bals, rsv.tx)
            IN IF ~got.ok \/ ~is_open(got.market)
               THEN [ok |-> TRUE, error |-> TRUE, was_matched |-> FALSE,
                     W |-> [bals |-> rel.bals, tx |-> rel.tx, orders |-> orders1,
                            mkt |-> W.mkt, cache |-> got.cache]]
               ELSE LET m == submit_matching(order, got.market)
                    IN [ok |-> TRUE, error |-> FALSE, was_matched |-> m.was_matched,
                        W |-> [bals |-> rsv.bals, tx |-> rsv.tx, orders |-> orders1,
                               mkt |-> save_market(m.market), cache |-> Cached(m.market)]]

\* OrderService::cancel_order, run without interruption and without repository failure.
cancel_order(order_id, W, rank) ==
    IF order_id \notin DOMAIN W.orders THEN [ok |-> FALSE, W |-> W]
    ELSE LET order == W.orders[order_id]
             got == get_market(W.cache, W.mkt, W.orders, rank)
         IN IF ~got.ok THEN [ok |-> FALSE, W |-> W]
            ELSE LET rm == remove_order(got.market.order_book, order_id)
                 IN IF ~rm.found THEN [ok |-> FALSE, W |-> [W EXCEPT !.cache = got.cache]]
                    ELSE LET market2 == [got.market EXCEPT !.order_book = rm.book]
                             orders2 == MapSet(W.orders, order_id,
                                               [order EXCEPT !.status = "Cancelled"])
                             rel == LedgerRun(LedgerCall("release_funds", order.user_id,
                                                         calculate_reserve_amount(rm.order),
                                                         order_id),
                                              W.bals, W.tx)
                         IN [ok |-> rel.ok,
                             W |-> [bals |-> rel.bals, tx |-> rel.tx, orders |-> orders2,
                                    mkt |-> save_market(market2),
                                    cache |-> IF rel.ok THEN Cached(market2) ELSE got.cache]]

\* BTreeMap::keys().next()
FirstKey(m) == IF DOMAIN m = {} THEN "None" ELSE CHOOSE p \in DOMAIN m : \A q \in DOMAIN m : p <= q

\* OrderBook::get_best_prices: <<best bid, best ask>>
get_best_prices(book, outcome) ==
    IF outcome = "Yes" THEN <<FirstKey(book.yes_bids), FirstKey(book.yes_asks)>>
    ELSE <<FirstKey(book.no_bids), FirstKey(book.no_asks)>>

\* The bids and the asks of an outcome.
BidsOf(book, outcome) == IF outcome = "Yes" THEN book.yes_bids ELSE book.no_bids
AsksOf(book, outcome) == IF outcome = "Yes" THEN book.yes_asks ELSE book.no_asks

\* OrderBook::get_mid_price: get_best_prices returns Some for a map that has a key
get_mid_price(book, outcome) ==
    LET bp == get_best_prices(book, outcome)
        some_bid == DOMAIN BidsOf(book, outcome) # {}
        some_ask == DOMAIN AsksOf(book, outcome) # {}
    IN IF some_bid /\ some_ask THEN (bp[1] + bp[2]) \div 2
       ELSE IF some_bid THEN bp[1]
       ELSE IF some_ask THEN bp[2]
       ELSE "None"

\* OrderBook::get_implied_probability
get_implied_probability(book) == get_mid_price(book, "Yes")

\* ------------------------------------------------------------------ api/websocket.rs
\* mpsc::Sender::try_send on the channel of get_trade_receiver: a full channel drops
\* the trade (match_order only logs the error).
try_send(chan, trade) ==
    IF Len(chan) < ChanCapacity THEN Append(chan, trade) ELSE chan

RECURSIVE try_send_all(_, _)
try_send_all(chan, trades) ==
    IF trades = << >> THEN chan
    ELSE try_send_all(try_send(chan, Head(trades)), Tail(trades))

\* rx.recv(): the oldest trade of the channel
mpsc_recv_newest(chan) == [trade |-> chan[Len(chan)], rest |-> SubSeq(chan, 1, Len(chan) - 1)]
mpsc_recv(chan) == [trade |-> Head(chan), rest |-> Tail(chan)]

\* WebSocketEvent::Trade and WebSocketEvent::PriceUpdate; cause is the trade whose
\* handling made the price update (it is not a field of the event).
TradeEvent(trade) == [type |-> "Trade", trade |-> trade]
PriceUpdateEvent(trade, price) ==
    [type |-> "PriceUpdate", market_id |-> MarketId, outcome |-> trade.outcome,
     price |-> price, cause |-> trade]

\* calculate_market_price: the implied probability of the stored market, or the mid
\* price of the outcome, or 0.5
calculate_market_price(row, orders, rank, outcome) ==
    LET g == repo_get_market(row, orders, rank)
    IN IF ~g.ok THEN [ok |-> FALSE]
       ELSE LET book == g.market.order_book
                keyed(o) == DOMAIN BidsOf(book, o) # {} \/ DOMAIN AsksOf(book, o) # {}
            IN [ok |-> TRUE,
                price |-> IF keyed("Yes") THEN get_implied_probability(book)
                          ELSE IF keyed(outcome) THEN get_mid_price(book, outcome)
                          ELSE Unit \div 2]

\* ------------------------------------------------------------------ services/bot_service.rs
BotLoopIds == 1 .. MaxBotLoops

BotStrategies == {"MarketMaker", "NoiseTrader"}

\* active_bots without / with an entry for MarketId
NoBot == [present |-> FALSE]
Registered(strategy) == [present |-> TRUE, strategy |-> strategy]

NoLoop == [pc |-> "none", strategy |-> "None", stopped |-> FALSE, resumed |-> FALSE]

\* BotConfig: bot_user_id is a user that has made no deposit; order_size and half of
\* max_spread (0.1) are those of BotConfig::default.
BotUser == "A"
BotOrderSize == 10
BotHalfSpread == 5

\* .max(0.01).min(0.99)
ClampPrice(p) == IF p < 1 THEN 1 ELSE IF p > 99 THEN 99 ELSE p

\* market.get_implied_probability().unwrap_or(0.5)
BotMidPrice(mk) ==
    IF DOMAIN mk.order_book.yes_bids # {} \/ DOMAIN mk.order_book.yes_asks # {}
    THEN get_implied_probability(mk.order_book)
    ELSE Unit \div 2

\* execute_market_maker_strategy: a bid and an ask for Yes around the mid price, both
\* submitted; the jitter is below one cent.
execute_market_maker_strategy(mk, W, rank, id) ==
    LET mid == BotMidPrice(mk)
        bid_order == NewOrder(id, BotUser, "Buy", "Yes", ClampPrice(mid - BotHalfSpread),
                              BotOrderSize)
        ask_order == NewOrder(id + 1, BotUser, "Sell", "Yes", ClampPrice(mid + BotHalfSpread),
                              BotOrderSize)
        bid_result == submit_order(bid_order, W, rank)
        ask_result == submit_order(ask_order, bid_result.W, rank)
    IN [ok |-> bid_result.ok /\ ask_result.ok, W |-> ask_result.W, created |-> 2]

\* The random choices of the noise trader: side, outcome, the jitter in percent of the
\* mid price and the size factor in percent.
NoiseChoices ==
    [side : Sides, outcome : Outcomes, jitter_pct : {-2, 0}, size_factor : {50, 149}]

\* execute_noise_trader_strategy: one order at a price near the mid price
execute_noise_trader_strategy(mk, W, rank, id, choice) ==
    LET mid == BotMidPrice(mk)
        price == ClampPrice((mid * (100 + choice.jitter_pct)) \div 100)
        size == (BotOrderSize * choice.size_factor) \div 100
        order == NewOrder(id, BotUser, choice.side, choice.outcome, price, size)
        result == submit_order(order, W, rank)
    IN [ok |-> result.ok, W |-> result.W, created |-> 1]

\* The market maker makes no random choice that is kept (its jitter is below one cent).
StrategyChoices(strategy) ==
    IF strategy = "NoiseTrader" THEN NoiseChoices
    ELSE {[side |-> "Buy", outcome |-> "Yes", jitter_pct |-> 0, size_factor |-> 50]}

execute_strategy(strategy, mk, W, rank, id, choice) ==
    IF strategy = "MarketMaker" THEN execute_market_maker_strategy(mk, W, rank, id)
    ELSE execute_noise_trader_strategy(mk, W, rank, id, choice)

\* ------------------------------------------------------------------ initial state
NoCall == [op |-> "none"]

Idle == [pc |-> "idle"]

Init ==
    /\ market = Market_new
    /\ eng_trades = << >>
    /\ eng_last = NoCall
    /\ eng_n = 0
    /\ db_balances = [u \in Users |-> NoRow]
    /\ db_tx = << >>
    /\ led_n = 0
    /\ led_proc = [c \in Callers |-> Idle]
    /\ led_batch = [base |-> [u \in Users |-> NoRow], calls |-> [c \in Callers |-> NoCall]]
    /\ db_market = NoMarketRow
    /\ db_orders = NoOrders
    /\ db_trades = << >>
    /\ markets = NotCached
    /\ markets_cache = NotCached
    /\ svc_n = 0
    /\ svc_cnt = [deposits |-> 0, creates |-> 0]
    /\ svc_last = NoCall
    /\ sub_proc = [c \in Callers |-> Idle]
    /\ sub_batch = [base |-> [bals |-> [u \in Users |-> NoRow], tx |-> << >>,
                              orders |-> NoOrders, mkt |-> NoMarketRow, cache |-> NotCached],
                    calls |-> [c \in Callers |-> NoCall]]
    /\ matching_engine = "free"
    /\ set_n = 0
    /\ set_last = NoCall
    /\ set_proc = [c \in Callers |-> Idle]
    /\ trade_chan = << >>
    /\ ws_events = << >>
    /\ ws_task = [pc |-> "recv"]
    /\ active_bots = NoBot
    /\ bot_loops = [l \in BotLoopIds |-> NoLoop]
    /\ bot_last = NoCall

\* ------------------------------------------------------------------ the engine's specification
EngInit == Init

\* MatchingEngine::process_order on a freshly created order (Order::new)
\* match_order hands every trade to trade_sender.try_send as it makes it.
EngProcessWith(max, outcomes, qtys) ==
    /\ eng_n < max
    /\ \E u \in Users, sd \in Sides, oc \in outcomes, p \in Prices, q \in qtys :
          LET input == NewOrder(eng_n + 1, u, sd, oc, p, q)
              r == process_order(input, market)
          IN /\ market' = r.market
             /\ eng_trades' = eng_trades \o r.trades
             /\ eng_last' = [op |-> "process_order", input |-> input, before |-> market,
                             order |-> r.order, resting |-> r.resting,
                             trades |-> r.trades]
             /\ eng_n' = eng_n + 1
             /\ trade_chan' = try_send_all(trade_chan, r.trades)
             /\ UNCHANGED <<ws_events, ws_task, led_vars, svc_vars, bot_vars>>

EngProcessOrder == EngProcessWith(MaxOrders, Outcomes, Qtys)

\* MatchingEngine::cancel_order
EngCancelOrder ==
    /\ \E id \in 1 .. eng_n :
          LET r == engine_cancel_order(id, market)
          IN /\ r.found
             /\ market' = r.market
             /\ eng_last' = [op |-> "cancel_order", order |-> r.order, before |-> market]
             /\ UNCHANGED <<eng_trades, eng_n, led_vars, svc_vars, ws_vars, bot_vars>>

\* Market::close on the engine's market
EngClose ==
    /\ market.status = "Open"
    /\ market' = [market EXCEPT !.status = "Closed"]
    /\ eng_last' = [op |-> "close"]
    /\ UNCHANGED <<eng_trades, eng_n, led_vars, svc_vars, ws_vars, bot_vars>>

EngNext == EngProcessOrder \/ EngCancelOrder \/ EngClose

SpecEngine == EngInit /\ [][EngNext]_vars

\* ------------------------------------------------------------------ the ledger, one call at a time
AllIdle == \A c \in Callers : led_proc[c].pc = "idle"

\* A whole BalanceService call (add_funds, withdraw_funds, reserve_funds, release_funds
\* or process_payout), run to its end before the next one starts.
LedgerCallAtomic ==
    /\ led_n < MaxLedgerOps
    /\ \E op \in LedgerOps, u \in Users, a \in LedgerAmounts, ref \in RefIds :
          LET r == LedgerRun(LedgerCall(op, u, a, IF op = "process_payout" THEN MarketId ELSE ref),
                             db_balances, db_tx)
          IN /\ db_balances' = r.bals
             /\ db_tx' = r.tx
             /\ led_n' = led_n + 1
             /\ UNCHANGED <<led_proc, led_batch, eng_vars, svc_vars>>

LedgerNext == LedgerCallAtomic

SpecLedger == Init /\ [][LedgerNext]_vars

\* ------------------------------------------------------------------ the ledger, calls interleaved
\* A BalanceService call awaits the repository three or four times: get_user_balance
\* (and save of a zero row when there is none), save_user_balance,
\* save_balance_transaction. Nothing is locked in between.

\* Entry of a call, up to the amount check.
LedStart(c) ==
    /\ led_proc[c].pc = "idle"
    /\ led_n < MaxLedgerOps
    /\ AllIdle \/ led_batch.calls[c] = NoCall
    /\ \E op \in LedgerOps, u \in Users, a \in LedgerAmounts, ref \in RefIds :
          LET call == LedgerCall(op, u, a, IF op = "process_payout" THEN MarketId ELSE ref)
          IN /\ led_proc' = [led_proc EXCEPT ![c] =
                               IF RejectsAmount(call) THEN Idle
                               ELSE [pc |-> "get", call |-> call]]
             /\ led_batch' = IF AllIdle
                             THEN [base |-> db_balances,
                                   calls |-> [d \in Callers |-> IF d = c THEN call ELSE NoCall]]
                             ELSE [led_batch EXCEPT !.calls[c] = call]
    /\ led_n' = led_n + 1
    /\ UNCHANGED <<db_balances, db_tx, eng_vars, svc_vars>>

\* repository.get_user_balance
LedGet(c) ==
    /\ led_proc[c].pc = "get"
    /\ LET row == db_balances[led_proc[c].call.user]
       IN led_proc' = [led_proc EXCEPT ![c] =
                          IF row.present
                          THEN [pc |-> "apply", call |-> @.call, balance |-> row]
                          ELSE [pc |-> "create", call |-> @.call,
                                balance |-> UserBalance_new(0)]]
    /\ UNCHANGED <<db_balances, db_tx, led_n, led_batch, eng_vars, svc_vars>>

\* get_user_balance found no row: save_user_balance of the zero balance
LedCreate(c) ==
    /\ led_proc[c].pc = "create"
    /\ db_balances' = [db_balances EXCEPT ![led_proc[c].call.user] = led_proc[c].balance]
    /\ led_proc' = [led_proc EXCEPT ![c].pc = "apply"]
    /\ UNCHANGED <<db_tx, led_n, led_batch, eng_vars, svc_vars>>

\* the UserBalance method on the balance read, then repository.save_user_balance
LedApplySave(c) ==
    /\ led_proc[c].pc = "apply"
    /\ LET call == led_proc[c].call
           r == ApplyToBalance(call, led_proc[c].balance)
       IN IF r.ok
          THEN /\ db_balances' = [db_balances EXCEPT ![call.user] = r.balance]
               /\ led_proc' = [led_proc EXCEPT ![c].pc = "tx"]
          ELSE /\ led_proc' = [led_proc EXCEPT ![c] = Idle]
               /\ UNCHANGED db_balances
    /\ UNCHANGED <<db_tx, led_n, led_batch, eng_vars, svc_vars>>

\* repository.save_balance_transaction, and the call returns
LedTx(c) ==
    /\ led_proc[c].pc = "tx"
    /\ db_tx' = Append(db_tx, TxOf(led_proc[c].call))
    /\ led_proc' = [led_proc EXCEPT ![c] = Idle]
    /\ UNCHANGED <<db_balances, led_n, led_batch, eng_vars, svc_vars>>

LedgerConcNext ==
    \E c \in Callers : LedStart(c) \/ LedGet(c) \/ LedCreate(c) \/ LedApplySave(c) \/ LedTx(c)

SpecLedgerConc == Init /\ [][LedgerConcNext]_vars

\* The balances after the calls of the batch ran one after the other, first `first`.
SerialFrom(first, second) ==
    LET r1 == IF led_batch.calls[first] = NoCall
              THEN [bals |-> led_batch.base, tx |-> << >>]
              ELSE LedgerRun(led_batch.calls[first], led_batch.base, << >>)
        r2 == IF led_batch.calls[second] = NoCall THEN r1
              ELSE LedgerRun(led_batch.calls[second], r1.bals, r1.tx)
    IN r2.bals

SameFunds(b1, b2) ==
    \A u \in Users : /\ b1[u].available_balance = b2[u].available_balance
                     /\ b1[u].reserved_balance = b2[u].reserved_balance

\* C8: when the ledger calls that ran concurrently have all returned, every user's
\* available and reserved are those of running the calls in some sequential order.
C8_Serializable ==
    AllIdle =>
       \/ SameFunds(db_balances, SerialFrom("p1", "p2"))
       \/ SameFunds(db_balances, SerialFrom("p2", "p1"))

\* ------------------------------------------------------------------ properties of the ledger
RECURSIVE SignedSum(_, _)
SignedSum(tx, user) ==
    IF tx = << >> THEN 0
    ELSE LET t == Head(tx)
             d == IF t.user_id # user THEN 0
                  ELSE CASE t.transaction_type \in {"Deposit", "SettlementPayout"} -> t.amount
                         [] t.transaction_type = "Withdraw" -> 0 - t.amount
                         [] OTHER -> 0
         IN d + SignedSum(Tail(tx), user)

Total(b) == b.available_balance + b.reserved_balance

TxTypes(tx) == {tx[k].transaction_type : k \in 1 .. Len(tx)}

\* C6: after any sequence of ledger calls run one at a time without persistence failure,
\* available + reserved of every user equals the signed sum of the user's transactions
\* (Deposit and SettlementPayout positive, Withdraw negative, reserve/release zero).
C6_LedgerSum ==
    \A u \in Users : Total(db_balances[u]) = SignedSum(db_tx, u)

\* A deposit, a reservation and a release have all been booked for one user.
C6_Witness ==
    /\ {"Deposit", "OrderReserve", "OrderRelease"} \subseteq TxTypes(db_tx)
    /\ \E u \in Users : Total(db_balances[u]) > 0

\* C7: every user's available and reserved balances are >= 0.
C7_NonNegative ==
    \A u \in Users :
       db_balances[u].available_balance >= 0 /\ db_balances[u].reserved_balance >= 0

\* ------------------------------------------------------------------ the order service, one call at a time
Before == [bals |-> db_balances, tx |-> db_tx, orders |-> db_orders, mkt |-> db_market,
           cache |-> markets_cache, trades |-> db_trades]

\* What is remembered of a call that is neither submit_order nor cancel_order.
OtherCall == [op |-> "other"]

SetWorld(W) ==
    /\ db_balances' = W.bals
    /\ db_tx' = W.tx
    /\ db_orders' = W.orders
    /\ db_market' = W.mkt
    /\ markets_cache' = W.cache

\* OrderService::create_market(Market::new(MarketId, ..))
SvcCreateMarket ==
    /\ svc_cnt.creates < MaxCreates
    /\ db_market' = save_market(Market_new)
    /\ markets' = IF markets.present THEN markets ELSE Cached(Market_new)
    /\ svc_cnt' = [svc_cnt EXCEPT !.creates = @ + 1]
    /\ svc_last' = OtherCall
    /\ UNCHANGED <<db_balances, db_tx, db_orders, db_trades, markets_cache, svc_n,
                   eng_vars, led_n, led_proc, led_batch,
                   conc_vars, set_vars>>

\* BalanceService::add_funds, the way users get money to trade with
SvcDeposit ==
    /\ svc_cnt.deposits < MaxDeposits
    /\ \E u \in Users, a \in DepositAmounts :
          LET r == LedgerRun(LedgerCall("add_funds", u, a, NoRef), db_balances, db_tx)
          IN /\ db_balances' = r.bals
             /\ db_tx' = r.tx
             /\ svc_last' = OtherCall
    /\ svc_cnt' = [svc_cnt EXCEPT !.deposits = @ + 1]
    /\ UNCHANGED <<db_market, db_orders, db_trades, markets, markets_cache, svc_n,
                   eng_vars, led_n, led_proc, led_batch,
                   conc_vars, set_vars>>

\* handle_submit_order: Order::new from the request, then OrderService::submit_order
SvcSubmitWith(prices, qtys) ==
    /\ svc_n < MaxSubmits
    /\ \E u \in Users, sd \in Sides, oc \in SvcOutcomes, p \in prices, q \in qtys,
          rank \in Ranks :
          LET order == NewOrder(svc_n + 1, u, sd, oc, p, q)
              r == submit_order(order, World, rank)
          IN /\ SetWorld(r.W)
             /\ svc_last' = [op |-> "submit_order", order |-> order, ok |-> r.ok,
                             error |-> r.error, was_matched |-> r.was_matched,
                             before |-> Before]
    /\ svc_n' = svc_n + 1
    /\ UNCHANGED <<db_trades, markets, svc_cnt, eng_vars, led_n, led_proc, led_batch,
                   conc_vars, set_vars>>

SvcSubmitOrder == SvcSubmitWith(Prices, SvcQtys)

\* OrderService::cancel_order
SvcCancelOrder ==
    /\ \E id \in 1 .. svc_n, rank \in Ranks :
          LET r == cancel_order(id, World, rank)
          IN /\ SetWorld(r.W)
             /\ svc_last' = [op |-> "cancel_order", order_id |-> id, ok |-> r.ok,
                             before |-> Before,
                             prev |-> IF svc_last.op = "submit_order" THEN svc_last
                                      ELSE NoCall]
    /\ UNCHANGED <<db_trades, markets, svc_n, svc_cnt, eng_vars, led_n, led_proc, led_batch,
                   conc_vars, set_vars>>

\* OrderService::get_market, as called by handle_get_market and the bots
SvcGetMarket ==
    /\ \E rank \in Ranks :
          LET r == get_market(markets_cache, db_market, db_orders, rank)
          IN /\ markets_cache' = r.cache
             /\ svc_last' = OtherCall
    /\ UNCHANGED <<db_balances, db_tx, db_market, db_orders, db_trades, markets, svc_n,
                   svc_cnt, eng_vars, led_n, led_proc, led_batch,
                   conc_vars, set_vars>>

\* OrderService::get_all_markets: the cache is replaced by what the repository returns
SvcGetAllMarkets ==
    /\ \E rank \in Ranks :
          LET r == repo_get_market(db_market, db_orders, rank)
          IN /\ markets_cache' = IF r.ok THEN Cached(r.market) ELSE NotCached
             /\ svc_last' = OtherCall
    /\ UNCHANGED <<db_balances, db_tx, db_market, db_orders, db_trades, markets, svc_n,
                   svc_cnt, eng_vars, led_n, led_proc, led_batch,
                   conc_vars, set_vars>>

\* SettlementService::close_market
SvcCloseMarket ==
    /\ db_market.present
    /\ db_market.status = "Open"
    /\ db_market' = [db_market EXCEPT !.status = "Closed"]
    /\ svc_last' = OtherCall
    /\ UNCHANGED <<db_balances, db_tx, db_orders, db_trades, markets, markets_cache, svc_n,
                   svc_cnt, eng_vars, led_n, led_proc, led_batch,
                   conc_vars, set_vars>>

ServiceNext ==
    \/ SvcCreateMarket
    \/ SvcDeposit
    \/ SvcSubmitOrder
    \/ SvcCancelOrder
    \/ SvcGetMarket
    \/ SvcGetAllMarkets
    \/ SvcCloseMarket

SpecService == Init /\ [][ServiceNext]_vars

\* ------------------------------------------------------------------ the order service, submissions interleaved
\* submit_order awaits the ledger, the repository and three locks (markets_cache read,
\* markets_cache write, the matching_engine Mutex). Another call can run between any two
\* of these. A ledger call is taken as one step here (its own interleavings are those of
\* SpecLedgerConc), and so is repository.get_market.
SubAllIdle == \A c \in Callers : sub_proc[c].pc = "idle"

\* The call of caller c returns: its outcome is kept in the batch.
SubReturn(c, result) ==
    /\ sub_proc' = [sub_proc EXCEPT ![c] = Idle]
    /\ sub_batch' = [sub_batch EXCEPT !.calls[c].result = result]

\* The market a caller got from get_market: past the is_open check, or on to the release.
SubGotMarket(c, mk) ==
    sub_proc' = [sub_proc EXCEPT ![c] =
                    [pc |-> IF is_open(mk) THEN "lock" ELSE "release",
                     order |-> @.order, market |-> mk]]

\* handle_submit_order builds the order; submit_order computes the reserve amount.
SubStartWith(c, sides, prices) ==
    /\ sub_proc[c].pc = "idle"
    /\ svc_n < MaxSubmits
    /\ SubAllIdle \/ sub_batch.calls[c] = NoCall
    /\ \E u \in Users, sd \in sides, oc \in SvcOutcomes, p \in prices, q \in SvcQtys :
          LET order == NewOrder(svc_n + 1, u, sd, oc, p, q)
              call == [order |-> order, result |-> "running"]
          IN /\ sub_proc' = [sub_proc EXCEPT ![c] = [pc |-> "reserve", order |-> order]]
             /\ sub_batch' = IF SubAllIdle
                             THEN [base |-> World,
                                   calls |-> [d \in Callers |-> IF d = c THEN call ELSE NoCall]]
                             ELSE [sub_batch EXCEPT !.calls[c] = call]
    /\ svc_n' = svc_n + 1
    /\ UNCHANGED <<db_balances, db_tx, db_market, db_orders, db_trades, markets,
                   markets_cache, svc_cnt, svc_last, matching_engine, eng_vars, led_n,
                   led_proc, led_batch, set_vars>>

SubStart(c) == SubStartWith(c, Sides, Prices)

\* balance_service.reserve_funds(..).await?
SubReserve(c) ==
    /\ sub_proc[c].pc = "reserve"
    /\ LET order == sub_proc[c].order
           r == LedgerRun(LedgerCall("reserve_funds", order.user_id,
                                     calculate_reserve_amount(order), order.order_id),
                          db_balances, db_tx)
       IN /\ db_balances' = r.bals
          /\ db_tx' = r.tx
          /\ IF r.ok
             THEN /\ sub_proc' = [sub_proc EXCEPT ![c].pc = "save_order"]
                  /\ UNCHANGED sub_batch
             ELSE SubReturn(c, "failed")
    /\ UNCHANGED <<db_market, db_orders, db_trades, markets, markets_cache, svc_n, svc_cnt,
                   svc_last, matching_engine, eng_vars, led_n, led_proc, led_batch, set_vars>>

\* repository.save_order(&order)
SubSaveOrder(c) ==
    /\ sub_proc[c].pc = "save_order"
    /\ db_orders' = MapSet(db_orders, sub_proc[c].order.order_id, sub_proc[c].order)
    /\ sub_proc' = [sub_proc EXCEPT ![c].pc = "cache_read"]
    /\ UNCHANGED <<db_balances, db_tx, db_market, db_trades, markets, markets_cache, svc_n,
                   svc_cnt, svc_last, sub_batch, matching_engine, eng_vars, led_n,
                   led_proc, led_batch, set_vars>>

\* get_market: the lookup in markets_cache under the read lock
SubCacheRead(c) ==
    /\ sub_proc[c].pc = "cache_read"
    /\ IF markets_cache.present
       THEN SubGotMarket(c, markets_cache.market)
       ELSE sub_proc' = [sub_proc EXCEPT ![c].pc = "repo_load"]
    /\ UNCHANGED <<db_balances, db_tx, db_market, db_orders, db_trades, markets,
                   markets_cache, svc_n, svc_cnt, svc_last, sub_batch, matching_engine,
                   eng_vars, led_n, led_proc, led_batch, set_vars>>

\* get_market: repository.get_market after a miss
SubRepoLoad(c) ==
    /\ sub_proc[c].pc = "repo_load"
    /\ \E rank \in Ranks :
          LET r == repo_get_market(db_market, db_orders, rank)
          IN sub_proc' = [sub_proc EXCEPT ![c] =
                             IF r.ok THEN [pc |-> "cache_push", order |-> @.order,
                                           market |-> r.market]
                             ELSE [pc |-> "release", order |-> @.order]]
    /\ UNCHANGED <<db_balances, db_tx, db_market, db_orders, db_trades, markets,
                   markets_cache, svc_n, svc_cnt, svc_last, sub_batch, matching_engine,
                   eng_vars, led_n, led_proc, led_batch, set_vars>>

\* get_market: markets.push(market.clone()) under the write lock. An entry pushed behind
\* one of the same market is never found again.
SubCachePush(c) ==
    /\ sub_proc[c].pc = "cache_push"
    /\ markets_cache' = IF markets_cache.present THEN markets_cache
                        ELSE Cached(sub_proc[c].market)
    /\ SubGotMarket(c, sub_proc[c].market)
    /\ UNCHANGED <<db_balances, db_tx, db_market, db_orders, db_trades, markets, svc_n,
                   svc_cnt, svc_last, sub_batch, matching_engine, eng_vars, led_n,
                   led_proc, led_batch, set_vars>>

\* The market was not found or is not open: release_funds, and the result carries an error.
SubRelease(c) ==
    /\ sub_proc[c].pc = "release"
    /\ LET order == sub_proc[c].order
           r == LedgerRun(LedgerCall("release_funds", order.user_id,
                                     calculate_reserve_amount(order), order.order_id),
                          db_balances, db_tx)
       IN /\ db_balances' = r.bals
          /\ db_tx' = r.tx
    /\ SubReturn(c, "error")
    /\ UNCHANGED <<db_market, db_orders, db_trades, markets, markets_cache, svc_n, svc_cnt,
                   svc_last, matching_engine, eng_vars, led_n, led_proc, led_batch, set_vars>>

\* matching_engine.lock().await, then add_order on the caller's own copy of the market
SubLock(c) ==
    /\ sub_proc[c].pc = "lock"
    /\ matching_engine = "free"
    /\ matching_engine' = c
    /\ sub_proc' = [sub_proc EXCEPT ![c] =
                       [pc |-> "save_market", order |-> @.order,
                        market |-> submit_matching(@.order, @.market).market]]
    /\ UNCHANGED <<db_balances, db_tx, db_market, db_orders, db_trades, markets,
                   markets_cache, svc_n, svc_cnt, svc_last, sub_batch, eng_vars, led_n,
                   led_proc, led_batch, set_vars>>

\* repository.save_market(&market)
SubSaveMarket(c) ==
    /\ sub_proc[c].pc = "save_market"
    /\ db_market' = save_market(sub_proc[c].market)
    /\ sub_proc' = [sub_proc EXCEPT ![c].pc = "write_back"]
    /\ UNCHANGED <<db_balances, db_tx, db_orders, db_trades, markets, markets_cache, svc_n,
                   svc_cnt, svc_last, sub_batch, matching_engine, eng_vars, led_n,
                   led_proc, led_batch, set_vars>>

\* markets[idx] = market.clone() under the write lock; the call returns and the guard of
\* the matching_engine Mutex is dropped.
SubWriteBack(c) ==
    /\ sub_proc[c].pc = "write_back"
    /\ markets_cache' = IF markets_cache.present THEN Cached(sub_proc[c].market)
                        ELSE markets_cache
    /\ matching_engine' = "free"
    /\ SubReturn(c, "accepted")
    /\ UNCHANGED <<db_balances, db_tx, db_market, db_orders, db_trades, markets, svc_n,
                   svc_cnt, svc_last, eng_vars, led_n, led_proc, led_batch, set_vars>>

\* What happens before the first submission: the market is created, users deposit, the
\* market is read or closed.
SubSetup ==
    /\ svc_n = 0
    /\ SvcCreateMarket \/ SvcDeposit \/ SvcGetMarket \/ SvcCloseMarket

SubmitConcNext ==
    \/ SubSetup
    \/ \E c \in Callers :
          \/ SubStart(c)
          \/ SubReserve(c)
          \/ SubSaveOrder(c)
          \/ SubCacheRead(c)
          \/ SubRepoLoad(c)
          \/ SubCachePush(c)
          \/ SubRelease(c)
          \/ SubLock(c)
          \/ SubSaveMarket(c)
          \/ SubWriteBack(c)

SpecSubmitConc == Init /\ [][SubmitConcNext]_vars

\* Both callers' submissions overlapped, have returned, and were accepted.
BothAccepted ==
    /\ SubAllIdle
    /\ \A c \in Callers :
          sub_batch.calls[c] # NoCall /\ sub_batch.calls[c].result = "accepted"

\* markets_cache after the two submissions of the batch ran one after the other.
SubSerialCache(first, second, rank1, rank2) ==
    LET r1 == submit_order(sub_batch.calls[first].order, sub_batch.base, rank1)
        r2 == submit_order(sub_batch.calls[second].order, r1.W, rank2)
    IN r2.W.cache

\* C9: when two submit_order calls on the same Open market overlapped and both were
\* accepted, the in-memory market that get_market returns afterwards is the one produced
\* by running the two submissions in some sequential order; its book holds both orders.
C9_SubmitsSerialized ==
    BothAccepted =>
       /\ markets_cache.present
       /\ \E first \in Callers, second \in Callers, rank1 \in Ranks, rank2 \in Ranks :
             /\ first # second
             /\ markets_cache = SubSerialCache(first, second, rank1, rank2)

\* ------------------------------------------------------------------ services/settlement_service.rs
is_resolved(mk) == mk.status \in {"ResolvedYes", "ResolvedNo"}

\* Market::resolve
Market_resolve(mk, outcome) ==
    [mk EXCEPT !.status = IF outcome = "Yes" THEN "ResolvedYes" ELSE "ResolvedNo",
               !.resolution = outcome]

\* Market::cancel
Market_cancel(mk) == [mk EXCEPT !.status = "Cancelled"]

\* Market::close
Market_close_kept(mk) == mk

Market_close(mk) == [mk EXCEPT !.status = "Closed"]

\* The payout of a winning trade's buyer, quantity * (1 + (1 - price)), and of its seller.
BuyerPayout(trade) == trade.quantity * (Unit + (Unit - trade.price))

SellerPayout(trade) == trade.quantity * Unit

\* process_payouts: the loop over the trades, `processed` being processed_users.
RECURSIVE process_payouts(_, _, _, _, _)
process_payouts(trades, winning_outcome, processed, bals, tx) ==
    IF trades = << >> THEN [bals |-> bals, tx |-> tx]
    ELSE LET trade == Head(trades) IN
         IF trade.outcome # winning_outcome
         THEN process_payouts(Tail(trades), winning_outcome, processed, bals, tx)
         ELSE LET b == IF trade.buyer_id \in processed
                       THEN [bals |-> bals, tx |-> tx]
                       ELSE LedgerRun(LedgerCall("process_payout", trade.buyer_id,
                                                 BuyerPayout(trade), MarketId), bals, tx)
                  processed1 == processed \cup {trade.buyer_id}
                  sl == IF trade.seller_id \in processed1
                        THEN [bals |-> b.bals, tx |-> b.tx]
                        ELSE LedgerRun(LedgerCall("process_payout", trade.seller_id,
                                                  SellerPayout(trade), MarketId),
                                       b.bals, b.tx)
              IN process_payouts(Tail(trades), winning_outcome,
                                 processed1 \cup {trade.seller_id}, sl.bals, sl.tx)

\* The tables a settlement call works on.
Tables == [mkt |-> db_market, orders |-> db_orders, trades |-> db_trades,
           bals |-> db_balances, tx |-> db_tx]

\* SettlementService::resolve_market, run without interruption and without repository
\* failure. Only the scalar columns of the market it loads are used.
resolve_market(outcome, T) ==
    IF ~T.mkt.present THEN [ok |-> FALSE, T |-> T]
    ELSE IF is_resolved(T.mkt) THEN [ok |-> FALSE, T |-> T]
    ELSE IF T.mkt.status # "Closed" THEN [ok |-> FALSE, T |-> T]
    ELSE LET pay == process_payouts(T.trades, outcome, {}, T.bals, T.tx)
         IN [ok |-> TRUE,
             T |-> [T EXCEPT !.mkt = Market_resolve(T.mkt, outcome),
                             !.bals = pay.bals, !.tx = pay.tx]]

SetTables(T) ==
    /\ db_market' = T.mkt
    /\ db_orders' = T.orders
    /\ db_balances' = T.bals
    /\ db_tx' = T.tx

\* ------------------------------------------------------------------ resolution, one call at a time
\* No code of the engine writes table trades; resolve_market reads it. A row is one that
\* Trade::new builds for a match of two users' orders.
SetRecordTrade ==
    /\ Len(db_trades) < MaxTrades
    /\ db_market.present
    /\ \E b \in Users, sl \in Users, oc \in Outcomes, p \in Prices, q \in 1 .. MaxQty :
          /\ b # sl
          /\ db_trades' = Append(db_trades,
                                 Trade_new(2 * Len(db_trades) + 1, b,
                                           2 * Len(db_trades) + 2, sl, oc, p, q))
    /\ UNCHANGED <<db_balances, db_tx, db_market, db_orders, markets, markets_cache, svc_n,
                   svc_cnt, svc_last, eng_vars, led_n, led_proc, led_batch, conc_vars,
                   set_vars>>

\* handle_resolve_market -> SettlementService::resolve_market
SetResolveMarket ==
    /\ set_n < MaxSettles
    /\ \E outcome \in Outcomes :
          LET r == resolve_market(outcome, Tables)
          IN /\ SetTables(r.T)
             /\ set_last' = [op |-> "resolve_market", outcome |-> outcome, ok |-> r.ok,
                             before |-> Tables, after |-> r.T]
    /\ set_n' = set_n + 1
    /\ UNCHANGED <<db_trades, markets, markets_cache, svc_n, svc_cnt, svc_last, eng_vars,
                   led_n, led_proc, led_batch, conc_vars, set_proc>>

ResolveNext ==
    \/ SvcCreateMarket
    \/ SvcCloseMarket
    \/ SetRecordTrade
    \/ SetResolveMarket

SpecResolve == Init /\ [][ResolveNext]_vars

\* What resolve_market credited to user u: the change of the user's available balance.
Credited(u) ==
    set_last.after.bals[u].available_balance - set_last.before.bals[u].available_balance

\* One unit of cash per share to the buyer of a trade on the winning outcome and to the
\* seller of a trade on the other outcome.
RECURSIVE Owed(_, _, _)
Owed(trades, winning, u) ==
    IF trades = << >> THEN 0
    ELSE LET t == Head(trades)
             winner == IF t.outcome = winning THEN t.buyer_id ELSE t.seller_id
         IN (IF winner = u THEN t.quantity * Unit ELSE 0) + Owed(Tail(trades), winning, u)

Resolved == set_last.op = "resolve_market" /\ set_last.ok

\* C11: after resolve_market(m, w) has completed, every user has been credited q for each
\* trade of m the user won (as buyer when w is the trade's outcome, as seller otherwise)
\* and nothing else, so the credits of all users sum to the trades' quantities.
C11_PayoutPerTrade ==
    Resolved =>
       \A u \in Users : Credited(u) = Owed(set_last.before.trades, set_last.outcome, u)

\* C12: a second resolve_market on a resolved market succeeds and changes nothing when the
\* outcome is the one it was resolved to, and fails and changes nothing otherwise.
C12_ResolveIdempotent ==
    (/\ set_last.op = "resolve_market"
     /\ set_last.before.mkt.present
     /\ is_resolved(set_last.before.mkt)) =>
       /\ set_last.after = set_last.before
       /\ set_last.ok <=> (set_last.outcome = set_last.before.mkt.resolution)

\* ------------------------------------------------------------------ market cancellation, one call at a time
\* The orders of one side of a book, price levels ascending (BTreeMap::values), each
\* queue front to back.
RECURSIVE LevelsFlat(_, _)
LevelsFlat(m, keys) ==
    IF keys = << >> THEN << >> ELSE m[Head(keys)] \o LevelsFlat(m, Tail(keys))

\* yes_bids, yes_asks, no_bids, no_asks chained
BookOrders(book) ==
    LevelsFlat(book.yes_bids, KeysAsc(DOMAIN book.yes_bids))
       \o LevelsFlat(book.yes_asks, KeysAsc(DOMAIN book.yes_asks))
       \o LevelsFlat(book.no_bids, KeysAsc(DOMAIN book.no_bids))
       \o LevelsFlat(book.no_asks, KeysAsc(DOMAIN book.no_asks))

refund_amount(order) ==
    IF order.side = "Buy" THEN order.price * order.remaining_quantity
    ELSE Unit * order.remaining_quantity

cancelled_order_kept(order) == order

\* let mut cancelled_order = order.clone(); cancelled_order.status = Cancelled
cancelled_order(order) == [order EXCEPT !.status = "Cancelled"]

\* process_market_cancellation_refunds: the loop over the orders of the book
RECURSIVE refund_orders(_, _)
refund_orders(orders, T) ==
    IF orders = << >> THEN T
    ELSE LET order == Head(orders) IN
         IF ~is_active(order) THEN refund_orders(Tail(orders), T)
         ELSE LET pay == IF refund_amount(order) > 0
                         THEN LedgerRun(LedgerCall("process_payout", order.user_id,
                                                   refund_amount(order), MarketId),
                                        T.bals, T.tx)
                         ELSE [bals |-> T.bals, tx |-> T.tx]
              IN refund_orders(Tail(orders),
                               [T EXCEPT !.bals = pay.bals, !.tx = pay.tx,
                                         !.orders = MapSet(@, order.order_id,
                                                           cancelled_order(order))])

process_market_cancellation_refunds(T, rank) ==
    refund_orders(BookOrders(repo_get_market(T.mkt, T.orders, rank).market.order_book), T)

\* SettlementService::cancel_market, run without interruption and without repository
\* failure.
cancel_market(T, rank) ==
    IF ~T.mkt.present THEN [ok |-> FALSE, T |-> T]
    ELSE IF is_resolved(T.mkt) THEN [ok |-> FALSE, T |-> T]
    ELSE [ok |-> TRUE,
          T |-> process_market_cancellation_refunds(
                   [T EXCEPT !.mkt = Market_cancel(T.mkt)], rank)]

\* SettlementService::cancel_market
SetCancelMarket ==
    /\ set_n < MaxSettles
    /\ \E rank \in Ranks :
          LET r == cancel_market(Tables, rank)
          IN /\ SetTables(r.T)
             /\ set_last' = [op |-> "cancel_market", ok |-> r.ok, before |-> Tables,
                             after |-> r.T,
                             repeat |-> /\ set_last.op = "cancel_market"
                                        /\ set_last.ok
                                        /\ set_last.after = Tables]
    /\ set_n' = set_n + 1
    /\ UNCHANGED <<db_trades, markets, markets_cache, svc_n, svc_cnt, svc_last, eng_vars,
                   led_n, led_proc, led_batch, conc_vars, set_proc>>

CancelNext ==
    \/ SvcCreateMarket
    \/ SvcDeposit
    \/ SvcSubmitOrder
    \/ SvcCloseMarket
    \/ SetResolveMarket
    \/ SetCancelMarket

SpecCancel == Init /\ [][CancelNext]_vars

MarketCancelled == set_last.op = "cancel_market" /\ set_last.ok

\* The persisted orders of user u that were active before the last settlement call.
ActiveBefore(u) ==
    {id \in DOMAIN set_last.before.orders :
        set_last.before.orders[id].user_id = u /\ is_active(set_last.before.orders[id])}

\* The sum of price x remaining (Buy) or remaining (Sell) over a set of persisted orders.
RECURSIVE Outstanding(_, _)
Outstanding(orders, ids) ==
    IF ids = {} THEN 0
    ELSE LET id == CHOOSE i \in ids : TRUE
         IN refund_amount(orders[id]) + Outstanding(orders, ids \ {id})

\* C14: after cancel_market, each user's reserved has decreased by the outstanding
\* reservations (price x remaining for Buy, remaining for Sell) of the user's active
\* orders in the market, available has increased by the same amount, and each of these
\* orders is Cancelled.
C14_CancelReleases ==
    MarketCancelled =>
       \A u \in Users :
          LET owed == Outstanding(set_last.before.orders, ActiveBefore(u))
          IN /\ set_last.after.bals[u].reserved_balance
                   = set_last.before.bals[u].reserved_balance - owed
             /\ set_last.after.bals[u].available_balance
                   = set_last.before.bals[u].available_balance + owed
             /\ \A id \in ActiveBefore(u) : set_last.after.orders[id].status = "Cancelled"

\* C15: a cancel_market call that follows a successful cancel_market call on the same
\* market, with the tables as the first call left them, changes neither the market
\* status, nor an order, nor a balance, nor the ledger.
C15_CancelIdempotent ==
    (set_last.op = "cancel_market" /\ set_last.repeat) =>
       /\ set_last.ok
       /\ set_last.after = set_last.before

\* cancel_market ran twice in a row and the first call had refunded an order.
C15_Witness ==
    /\ set_last.op = "cancel_market"
    /\ set_last.repeat
    /\ \E k \in 1 .. Len(set_last.before.tx) :
          set_last.before.tx[k].transaction_type = "SettlementPayout"
    /\ \E id \in DOMAIN set_last.before.orders :
          set_last.before.orders[id].status = "Cancelled"

\* ------------------------------------------------------------------ settlement calls, interleaved
\* The handlers share one Arc<SettlementService> and take no lock: every await of a call
\* is a point where another call runs. A call in flight keeps the market it loaded.
SettleOps == {"close_market", "resolve_market", "cancel_market"}

\* The checks between repository.get_market and save_market (lines 35-42, 116-118, 138-140).
settle_refused(op, mk) ==
    CASE op = "close_market"   -> mk.status # "Open"
      [] op = "resolve_market" -> is_resolved(mk) \/ mk.status # "Closed"
      [] op = "cancel_market"  -> is_resolved(mk)

\* market.close() / market.resolve(outcome) / market.cancel() on the loaded market
settle_change(op, outcome, mk) ==
    CASE op = "close_market"   -> Market_close(mk)
      [] op = "resolve_market" -> Market_resolve(mk, outcome)
      [] op = "cancel_market"  -> Market_cancel(mk)

\* The call starts: repository.get_market, then the checks; a refused call returns Err.
SetcGetMarket(c) ==
    /\ set_proc[c].pc = "idle"
    /\ set_n < MaxConcSettles
    /\ \E op \in SettleOps, outcome \in Outcomes :
          set_proc' = [set_proc EXCEPT ![c] =
                          IF ~db_market.present \/ settle_refused(op, db_market)
                          THEN Idle
                          ELSE [pc |-> "save_market", op |-> op, outcome |-> outcome,
                                market |-> settle_change(op, outcome, db_market)]]
    /\ set_n' = set_n + 1
    /\ UNCHANGED <<db_balances, db_tx, db_market, db_orders, db_trades, markets,
                   markets_cache, svc_n, svc_cnt, svc_last, eng_vars, led_n, led_proc,
                   led_batch, conc_vars, set_last>>

\* repository.save_market(&market); close_market returns after it.
SetcSaveMarket(c) ==
    /\ set_proc[c].pc = "save_market"
    /\ db_market' = set_proc[c].market
    /\ set_proc' = [set_proc EXCEPT ![c] =
                       IF set_proc[c].op = "close_market" THEN Idle
                       ELSE [set_proc[c] EXCEPT !.pc = "pay"]]
    /\ UNCHANGED <<db_balances, db_tx, db_orders, db_trades, markets, markets_cache, svc_n,
                   svc_cnt, svc_last, eng_vars, led_n, led_proc, led_batch, conc_vars,
                   set_n, set_last>>

\* process_payouts or process_market_cancellation_refunds, then the call returns.
SetcPay(c) ==
    /\ set_proc[c].pc = "pay"
    /\ \E rank \in Ranks :
          LET T == IF set_proc[c].op = "resolve_market"
                   THEN LET pay == process_payouts(db_trades, set_proc[c].outcome, {},
                                                   db_balances, db_tx)
                        IN [Tables EXCEPT !.bals = pay.bals, !.tx = pay.tx]
                   ELSE process_market_cancellation_refunds(Tables, rank)
          IN SetTables(T)
    /\ set_proc' = [set_proc EXCEPT ![c] = Idle]
    /\ UNCHANGED <<db_trades, markets, markets_cache, svc_n, svc_cnt, svc_last, eng_vars,
                   led_n, led_proc, led_batch, conc_vars, set_n, set_last>>

SettleConcNext ==
    \/ SvcCreateMarket
    \/ SetRecordTrade
    \/ \E c \in Callers : SetcGetMarket(c)
    \/ \E c \in Callers : SetcSaveMarket(c)
    \/ \E c \in Callers : SetcPay(c)

SpecSettleConc == Init /\ [][SettleConcNext]_vars

TerminalMarketStatuses == {"Cancelled", "ResolvedYes", "ResolvedNo"}

\* C13: once the persisted status of the market is Cancelled, ResolvedYes or ResolvedNo,
\* no step of any interleaving of close_market, resolve_market and cancel_market calls
\* changes it to a different status.
C13_TerminalMarketStatus ==
    [][(db_market.present /\ db_market.status \in TerminalMarketStatuses)
          => db_market'.status = db_market.status]_vars

\* ------------------------------------------------------------------ the order book, called directly
\* OrderBook and Market are public types: besides MatchingEngine::process_order, the
\* book is changed by add_order, remove_order and update_order, and built by
\* Market::from_db. The orders passed in are ones Order::new builds (quantity is any
\* u32) or orders of the book after Order::apply_fill or Order::cancel.

\* Order::cancel
Order_cancel(o) == [o EXCEPT !.status = "Cancelled"]

\* OrderBook::update_order
update_order(book, updated_order) ==
    LET r == remove_order(book, updated_order.order_id) IN
    IF r.found
    THEN [book |-> IF is_active(updated_order) THEN add_order(r.book, updated_order)
                   ELSE r.book,
          found |-> TRUE, order |-> r.order]
    ELSE [book |-> book, found |-> FALSE, order |-> << >>]

\* The copies of an order a caller can hold: as queued, after a fill, after a cancel.
Updates(o) ==
    {o, Order_cancel(o)} \cup {apply_fill(o, q) : q \in 1 .. MaxQty}

\* The rows of a sequence of orders with the ones of ids cancelled.
CancelIn(orders, ids) ==
    [i \in 1 .. Len(orders) |->
        IF orders[i].order_id \in ids THEN Order_cancel(orders[i]) ELSE orders[i]]

BookProcessOrder ==
    /\ eng_n < MaxBookOrders
    /\ EngProcessOrder

BookAddOrder ==
    /\ eng_n < MaxBookOrders
    /\ \E u \in Users, sd \in Sides, oc \in Outcomes, p \in Prices, q \in Qtys :
          LET order == NewOrder(eng_n + 1, u, sd, oc, p, q)
          IN /\ market' = [market EXCEPT !.order_book = add_order(@, order)]
             /\ eng_last' = [op |-> "add_order", order |-> order]
    /\ eng_n' = eng_n + 1
    /\ UNCHANGED <<eng_trades, led_vars, svc_vars, ws_vars, bot_vars>>

BookRemoveOrder ==
    /\ \E id \in 1 .. eng_n :
          LET r == remove_order(market.order_book, id)
          IN /\ r.found
             /\ market' = [market EXCEPT !.order_book = r.book]
             /\ eng_last' = [op |-> "remove_order", order |-> r.order]
    /\ UNCHANGED <<eng_trades, eng_n, led_vars, svc_vars, ws_vars, bot_vars>>

BookUpdateOrder ==
    /\ \E i \in 1 .. Len(BookOrders(market.order_book)) :
       \E o \in Updates(BookOrders(market.order_book)[i]) :
          LET r == update_order(market.order_book, o)
          IN /\ r.found
             /\ market' = [market EXCEPT !.order_book = r.book]
             /\ eng_last' = [op |-> "update_order", order |-> o]
    /\ UNCHANGED <<eng_trades, eng_n, led_vars, svc_vars, ws_vars, bot_vars>>

\* Market::from_db on the orders of the book, saved with some of them cancelled
BookFromDb ==
    /\ \E ids \in SUBSET (1 .. eng_n) :
          /\ market' = from_db(market, CancelIn(BookOrders(market.order_book), ids))
          /\ eng_last' = [op |-> "from_db", ids |-> ids]
    /\ UNCHANGED <<eng_trades, eng_n, led_vars, svc_vars, ws_vars, bot_vars>>

BookNext ==
    \/ BookProcessOrder
    \/ BookAddOrder
    \/ BookRemoveOrder
    \/ BookUpdateOrder
    \/ BookFromDb

SpecBook == Init /\ [][BookNext]_vars

\* C16: every order held in one of the four book queues is Open or PartiallyFilled and
\* has remaining_quantity > 0.
C16_QueuedOrdersLive ==
    \A i \in 1 .. Len(BookOrders(market.order_book)) :
        LET o == BookOrders(market.order_book)[i]
        IN is_active(o) /\ o.remaining_quantity > 0

\* ------------------------------------------------------------------ the life of an order
\* The Order values the engine hands out or keeps: the taker as process_order returns
\* it, the order cancel_order returns, and the copies queued in the book. A maker filled
\* to 0 is dropped by match_order. Order::cancel is public and has no caller in the
\* engine; here it is called on the order the last call returned.
OrderCancelCall ==
    /\ eng_last.op \in {"process_order", "cancel_order"}
    /\ eng_last' = [op |-> "Order::cancel", order |-> Order_cancel(eng_last.order)]
    /\ UNCHANGED <<market, eng_trades, eng_n, led_vars, svc_vars, ws_vars, bot_vars>>

OrdersNext ==
    \/ BookProcessOrder
    \/ EngCancelOrder
    \/ EngClose
    \/ OrderCancelCall

SpecOrders == Init /\ [][OrdersNext]_vars

HeldOrders ==
    {BookOrders(market.order_book)[i] : i \in 1 .. Len(BookOrders(market.order_book))}
    \cup (IF eng_last.op \in {"process_order", "cancel_order", "Order::cancel"}
          THEN {eng_last.order} ELSE {})

InRange(o) == 0 <= o.remaining_quantity /\ o.remaining_quantity <= o.quantity
FullyFilled(o) == o.remaining_quantity = 0 /\ o.quantity > 0
PartlyFilled(o) == 0 < o.remaining_quantity /\ o.remaining_quantity < o.quantity

TerminalOrderStatuses == {"Filled", "Cancelled", "Rejected"}

\* C18: an order whose status is Filled, Cancelled or Rejected keeps its status and its
\* remaining quantity under every later operation on it.
C18_TerminalOrderStatus ==
    [][(eng_last'.op = "Order::cancel" /\ eng_last.order.status \in TerminalOrderStatuses)
          => /\ eng_last'.order.status = eng_last.order.status
             /\ eng_last'.order.remaining_quantity = eng_last.order.remaining_quantity]_vars

\* ------------------------------------------------------------------ properties of the engine
AllOrdersOf(m) == UNION {{m[p][i] : i \in 1 .. Len(m[p])} : p \in DOMAIN m}

LevelOf(m, p) == IF p \in DOMAIN m THEN m[p] ELSE << >>

OrderWithId(m, id) == CHOOSE o \in AllOrdersOf(m) : o.order_id = id

IndexOf(q, id) == CHOOSE i \in 1 .. Len(q) : q[i].order_id = id

\* The id of the resting order of a trade of a taker on `side`.
MakerId(t, side) == IF side = "Buy" THEN t.sell_order_id ELSE t.buy_order_id

RECURSIVE TotalQty(_)
TotalQty(ts) == IF ts = << >> THEN 0 ELSE Head(ts).quantity + TotalQty(Tail(ts))

RECURSIVE FilledQty(_, _, _)
FilledQty(ts, id, side) ==
    IF ts = << >> THEN 0
    ELSE (IF MakerId(Head(ts), side) = id THEN Head(ts).quantity ELSE 0)
         + FilledQty(Tail(ts), id, side)

\* o1 is matched before o2 by a taker on `side`: better price, or same price and earlier.
Ahead(m, o1, o2, side) ==
    \/ (side = "Buy" /\ o1.price < o2.price)
    \/ (side = "Sell" /\ o1.price > o2.price)
    \/ /\ o1.price = o2.price
       /\ IndexOf(m[o1.price], o1.order_id) < IndexOf(m[o2.price], o2.order_id)

Matched == eng_last.op = "process_order" /\ eng_last.before.status = "Open"

OppBefore ==
    eng_last.before.order_book[OppositeField(eng_last.input.side, eng_last.input.outcome)]

OppAfter == market.order_book[OppositeField(eng_last.input.side, eng_last.input.outcome)]

OwnBefore ==
    eng_last.before.order_book[OwnField(eng_last.input.side, eng_last.input.outcome)]

OwnAfter == market.order_book[OwnField(eng_last.input.side, eng_last.input.outcome)]

Crosses(taker, resting) ==
    IF taker.side = "Buy" THEN resting.price <= taker.price
    ELSE resting.price >= taker.price

\* C1: no trade has buyer_id = seller_id, and a process_order call leaves every resting
\* order of the taker's own user in the opposing queue exactly as it was (same record,
\* same price level), in the same relative order among the orders that stay queued.
C1_NoSelfMatch ==
    /\ \A k \in 1 .. Len(eng_trades) : eng_trades[k].buyer_id # eng_trades[k].seller_id
    /\ Matched =>
          /\ \A o \in AllOrdersOf(OppBefore) :
                o.user_id = eng_last.input.user_id => o \in AllOrdersOf(OppAfter)
          /\ \A p \in DOMAIN OppAfter : \A i, j \in 1 .. Len(OppAfter[p]) :
                i < j => /\ p \in DOMAIN OppBefore
                         /\ HoldsId(OppBefore, OppAfter[p][i].order_id)
                         /\ HoldsId(OppBefore, OppAfter[p][j].order_id)
                         /\ IndexOf(OppBefore[p], OppAfter[p][i].order_id)
                              < IndexOf(OppBefore[p], OppAfter[p][j].order_id)

\* A resting order of the taker's user crossed the taker's limit, was skipped, and the
\* taker traded with another user's order behind it.
C1_Witness ==
    /\ Matched
    /\ eng_last.trades # << >>
    /\ \E o \in AllOrdersOf(OppBefore) :
          /\ o.user_id = eng_last.input.user_id
          /\ Crosses(eng_last.input, o)
          /\ \E t \in AllOrdersOf(OppBefore) :
                /\ t.order_id = MakerId(eng_last.trades[1], eng_last.input.side)
                /\ Ahead(OppBefore, o, t, eng_last.input.side)

\* C2: every trade of a process_order call carries the price of the resting order it was
\* matched against, which is <= the limit of a Buy taker and >= the limit of a Sell taker.
C2_MakerPrice ==
    Matched =>
       \A k \in 1 .. Len(eng_last.trades) :
          LET t == eng_last.trades[k]
              id == MakerId(t, eng_last.input.side)
          IN /\ HoldsId(OppBefore, id)
             /\ t.price = OrderWithId(OppBefore, id).price
             /\ eng_last.input.side = "Buy" => t.price <= eng_last.input.price
             /\ eng_last.input.side = "Sell" => t.price >= eng_last.input.price

\* A trade whose maker price differs from the taker's limit (price improvement).
C2_Witness ==
    /\ Matched
    /\ \E k \in 1 .. Len(eng_last.trades) :
          eng_last.trades[k].price # eng_last.input.price

\* C3: the trades of a process_order call come in price-time priority (better level first,
\* queue order inside a level), none beyond the taker's limit, and a maker is filled only
\* if every maker of another user than the taker that is ahead of it (strictly better
\* price, or same price and earlier in the queue) has been filled completely.
C3_PriceTimePriority ==
    Matched =>
       LET side == eng_last.input.side
           ts == eng_last.trades
           mk(k) == OrderWithId(OppBefore, MakerId(ts[k], side))
       IN /\ \A k \in 1 .. Len(ts) :
                /\ HoldsId(OppBefore, MakerId(ts[k], side))
                /\ Crosses(eng_last.input, mk(k))
          /\ \A i, j \in 1 .. Len(ts) : i < j => Ahead(OppBefore, mk(i), mk(j), side)
          /\ \A k \in 1 .. Len(ts) : \A o \in AllOrdersOf(OppBefore) :
                (o.user_id # eng_last.input.user_id /\ Ahead(OppBefore, o, mk(k), side))
                   => /\ FilledQty(ts, o.order_id, side) = o.remaining_quantity
                      /\ ~HoldsId(OppAfter, o.order_id)

\* A taker that filled makers at two price levels, and one that filled two makers of one
\* level, are both reached; the witness is the first.
C3_Witness ==
    /\ Matched
    /\ Len(eng_last.trades) = 2
    /\ eng_last.trades[1].price # eng_last.trades[2].price

\* Parts of C4 shared by the original and the amended statement.
C4_Quantities ==
    LET ts == eng_last.trades
        side == eng_last.input.side
    IN /\ eng_last.order.remaining_quantity = eng_last.input.quantity - TotalQty(ts)
       /\ \A k \in 1 .. Len(ts) :
             LET id == MakerId(ts[k], side)
                 before == SubSeq(ts, 1, k - 1)
             IN ts[k].quantity =
                   Min(eng_last.input.quantity - TotalQty(before),
                       OrderWithId(OppBefore, id).remaining_quantity
                          - FilledQty(before, id, side))

C4_Residual ==
    eng_last.order.remaining_quantity > 0 =>
       /\ eng_last.resting
       /\ eng_last.order.status =
             (IF eng_last.trades = << >> THEN "Open" ELSE "PartiallyFilled")
       /\ eng_last.input.price \in DOMAIN OwnAfter
       /\ OwnAfter[eng_last.input.price]
             = Append(LevelOf(OwnBefore, eng_last.input.price), eng_last.order)

BookSlots(book) ==
    UNION {UNION {{<<f, p, i>> : i \in 1 .. Len(book[f][p])} : p \in DOMAIN book[f]}
           : f \in BookFields}

\* The last call was a submit_order that returned Ok without error.
Accepted(call) == call.op = "submit_order" /\ call.ok /\ ~call.error

\* The cached book before the last call holds one order, `r`, and the accepted order of
\* the last call is of another user, on r's outcome, on the other side, crosses r's price
\* and has r's remaining quantity.
CrossesOnly(r) ==
    /\ Accepted(svc_last)
    /\ svc_last.before.cache.present
    /\ LET o == svc_last.order
           book == svc_last.before.cache.market.order_book
       IN /\ o.quantity > 0
          /\ Cardinality(BookSlots(book)) = 1
          /\ r \in AllOrdersOf(book[OppositeField(o.side, o.outcome)])
          /\ r.user_id # o.user_id
          /\ Crosses(o, r)
          /\ r.remaining_quantity = o.quantity

\* C5: when submit_order accepts an order that crosses the one resting order of another
\* user on the same outcome with equal quantity, exactly one trade at the resting order's
\* price for that quantity is produced, both orders become Filled, and the best bid and
\* best ask of the outcome are both None afterwards.
C5_SubmitMatches ==
    \A r \in UNION {AllOrdersOf(b) : b \in
                       {svc_last.before.cache.market.order_book[f] : f \in
                           IF Accepted(svc_last) /\ svc_last.before.cache.present
                           THEN BookFields ELSE {}}} :
       CrossesOnly(r) =>
          LET o == svc_last.order IN
          /\ svc_last.was_matched
          /\ Len(db_trades) = Len(svc_last.before.trades) + 1
          /\ db_trades[Len(db_trades)].price = r.price
          /\ db_trades[Len(db_trades)].quantity = o.quantity
          /\ db_orders[o.order_id].status = "Filled"
          /\ db_orders[r.order_id].status = "Filled"
          /\ get_best_prices(markets_cache.market.order_book, o.outcome) = <<"None", "None">>

\* The last call cancelled the order that the call before it had submitted and got accepted.
CancelAfterSubmit ==
    /\ svc_last.op = "cancel_order"
    /\ Accepted(svc_last.prev)
    /\ svc_last.prev.order.order_id = svc_last.order_id

\* C10: submit_order followed by cancel_order of the same order, which no order matched,
\* puts the user's available and reserved balances back to their values before the
\* submit, marks the order Cancelled, removes it from the book, and appends exactly two
\* ledger entries, an OrderReserve and an OrderRelease of the same amount for the order.
C10_SubmitCancelRoundTrip ==
    CancelAfterSubmit =>
       LET s == svc_last.prev
           o == s.order
           amount == calculate_reserve_amount(o)
       IN /\ svc_last.ok
          /\ db_balances[o.user_id] = s.before.bals[o.user_id]
          /\ db_orders[o.order_id].status = "Cancelled"
          /\ markets_cache.present
          /\ ~InBook(markets_cache.market.order_book, o.order_id)
          /\ db_tx = s.before.tx \o
                <<BalanceTransaction_new(o.user_id, amount, "OrderReserve", o.order_id),
                  BalanceTransaction_new(o.user_id, amount, "OrderRelease", o.order_id)>>

\* The sum of the reserve amounts (price x quantity for Buy, quantity for Sell) of the
\* persisted orders of ids.
RECURSIVE ReserveSum(_, _)
ReserveSum(orders, ids) ==
    IF ids = {} THEN 0
    ELSE LET id == CHOOSE i \in ids : TRUE
         IN calculate_reserve_amount(orders[id]) + ReserveSum(orders, ids \ {id})

ActiveOrdersOf(u) ==
    {id \in DOMAIN db_orders : db_orders[id].user_id = u /\ is_active(db_orders[id])}

\* C19: between calls of submit_order and cancel_order, every user's reserved balance is
\* the sum of the reserve amounts of the user's persisted Open or PartiallyFilled orders.
C19_ReservedMatchesOrders ==
    \A u \in Users :
        db_balances[u].reserved_balance = ReserveSum(db_orders, ActiveOrdersOf(u))

\* The last call was a submit_order of an order whose reserve amount is more than the
\* available balance its user had.
SubmitUnfunded ==
    /\ svc_last.op = "submit_order"
    /\ svc_last.before.bals[svc_last.order.user_id].available_balance
          < calculate_reserve_amount(svc_last.order)

RebuiltBook(orders, rank) == from_db_book(RowsInOrder(orders, rank), OrderBook_new)

\* The last call was a submit_order on a market that no component holds as Open: the
\* persisted row is absent or not Open, and so is the cached market if there is one.
SubmitNoOpenMarket ==
    /\ svc_last.op = "submit_order"
    /\ ~svc_last.before.mkt.present \/ svc_last.before.mkt.status # "Open"
    /\ svc_last.before.cache.present => ~is_open(svc_last.before.cache.market)

\* C21: a submit_order against a market that does not exist or is not Open persists no
\* new order in an active status, leaves the book unchanged (the cached one and the one
\* rebuilt from the persisted active orders), and leaves the user's available and
\* reserved balances at their values before the call.
C21_RefusedSubmitNoMutation ==
    SubmitNoOpenMarket =>
       LET u == svc_last.order.user_id IN
       /\ \A id \in (DOMAIN db_orders) \ (DOMAIN svc_last.before.orders) :
              ~is_active(db_orders[id])
       /\ \A rank \in Ranks :
              RebuiltBook(db_orders, rank) = RebuiltBook(svc_last.before.orders, rank)
       /\ svc_last.before.cache.present
              => markets_cache.market.order_book = svc_last.before.cache.market.order_book
       /\ db_balances[u].available_balance = svc_last.before.bals[u].available_balance
       /\ db_balances[u].reserved_balance = svc_last.before.bals[u].reserved_balance

\* ------------------------------------------------------------------ orders off the price grid
\* SubmitOrderRequest.price is any Decimal; these are prices outside [0.01, 0.99].
OffGridPrices == {0, 150}

InGrid(p) == 1 <= p /\ p <= 99

\* handle_submit_order -> OrderService::submit_order with a price off the grid
SvcSubmitOffGrid == SvcSubmitWith(OffGridPrices, SvcQtys)

ValidateNext ==
    \/ SvcCreateMarket
    \/ SvcDeposit
    \/ SvcSubmitOrder
    \/ SvcSubmitOffGrid

SpecValidate == Init /\ [][ValidateNext]_vars

\* C22: a submit_order of an order whose price is outside [0.01, 0.99] or whose quantity
\* is 0 is rejected, and changes neither the book, nor the persisted orders, nor any
\* balance.
C22_RejectsInvalidOrders ==
    (/\ svc_last.op = "submit_order"
     /\ ~InGrid(svc_last.order.price) \/ svc_last.order.quantity = 0)
       => /\ ~svc_last.ok \/ svc_last.error
          /\ db_orders = svc_last.before.orders
          /\ markets_cache = svc_last.before.cache
          /\ \A u \in Users :
                /\ db_balances[u].available_balance
                      = svc_last.before.bals[u].available_balance
                /\ db_balances[u].reserved_balance
                      = svc_last.before.bals[u].reserved_balance

\* ------------------------------------------------------------------ repository write failures
\* The writes of submit_order that can fail after funds are reserved.
SubmitWrites == {"save_order", "save_market"}

\* OrderService::submit_order when the write `failing` returns Err; reached tells whether
\* the call got as far as that write.
submit_order_write_fails(order, W, rank, failing) ==
    LET amount == calculate_reserve_amount(order)
        reserve == LedgerCall("reserve_funds", order.user_id, amount, order.order_id)
        release == LedgerCall("release_funds", order.user_id, amount, order.order_id)
        rsv == LedgerRun(reserve, W.bals, W.tx)
        rel == LedgerRun(release, rsv.bals, rsv.tx)
        orders1 == MapSet(W.orders, order.order_id, order)
        got == get_market(W.cache, W.mkt, orders1, rank)
    IN IF ~rsv.ok
       THEN [reached |-> FALSE, W |-> W]
       ELSE IF failing = "save_order"
       THEN [reached |-> TRUE,
             W |-> [W EXCEPT !.bals = rel.bals, !.tx = rel.tx]]
       ELSE IF ~got.ok \/ ~is_open(got.market)
       THEN [reached |-> FALSE, W |-> W]
       ELSE [reached |-> TRUE,
             W |-> [bals |-> rsv.bals, tx |-> rsv.tx, orders |-> orders1,
                    mkt |-> W.mkt, cache |-> got.cache]]

\* A submit_order call that returns Err because one of its writes failed.
SvcSubmitWriteFails ==
    /\ svc_n < MaxSubmits
    /\ \E u \in Users, sd \in Sides, oc \in SvcOutcomes, p \in Prices, q \in SvcQtys,
          rank \in Ranks, failing \in SubmitWrites :
          LET order == NewOrder(svc_n + 1, u, sd, oc, p, q)
              r == submit_order_write_fails(order, World, rank, failing)
          IN /\ r.reached
             /\ SetWorld(r.W)
             /\ svc_last' = [op |-> "submit_order", order |-> order, ok |-> FALSE,
                             error |-> TRUE, was_matched |-> FALSE,
                             before |-> Before, failing |-> failing]
    /\ svc_n' = svc_n + 1
    /\ UNCHANGED <<db_trades, markets, svc_cnt, eng_vars, led_n, led_proc, led_batch,
                   conc_vars, set_vars>>

WriteFailNext ==
    \/ SvcCreateMarket
    \/ SvcDeposit
    \/ SvcSubmitOrder
    \/ SvcSubmitWriteFails

SpecWriteFail == Init /\ [][WriteFailNext]_vars

\* C23: when submit_order fails because a repository write failed, the user's available
\* and reserved balances equal their values before the call, no order of the call is
\* persisted in an active status, and the book is unchanged.
C23_WriteFailureRollsBack ==
    (svc_last.op = "submit_order" /\ "failing" \in DOMAIN svc_last) =>
       LET u == svc_last.order.user_id IN
       /\ db_balances[u].available_balance = svc_last.before.bals[u].available_balance
       /\ db_balances[u].reserved_balance = svc_last.before.bals[u].reserved_balance
       /\ \A id \in (DOMAIN db_orders) \ (DOMAIN svc_last.before.orders) :
              ~is_active(db_orders[id])
       /\ svc_last.before.cache.present
              => markets_cache.market.order_book = svc_last.before.cache.market.order_book

\* ------------------------------------------------------------------ the ledger, with write failures
\* The two writes of a BalanceService call that follow the change of the balance.
LedgerWrites == {"save_user_balance", "save_balance_transaction"}

\* One whole BalanceService call in which the write `failing` returns Err (the `?` after
\* it returns the error to the caller); reached tells whether the call got that far.
LedgerRunWriteFails(call, bals, tx, failing) ==
    IF RejectsAmount(call) THEN [reached |-> FALSE, bals |-> bals, tx |-> tx]
    ELSE LET b1 == get_user_balance(bals, call.user)
             r == ApplyToBalance(call, b1[call.user])
         IN IF ~r.ok THEN [reached |-> FALSE, bals |-> bals, tx |-> tx]
            ELSE IF failing = "save_user_balance"
            THEN [reached |-> TRUE, bals |-> b1, tx |-> tx]
            ELSE [reached |-> TRUE, bals |-> [b1 EXCEPT ![call.user] = r.balance],
                  tx |-> tx]

LedgerBefore == [bals |-> db_balances, tx |-> db_tx]

\* A BalanceService call with its result remembered.
LedgerCallRecorded ==
    /\ led_n < MaxLedgerOps
    /\ \E op \in LedgerOps, u \in Users, a \in LedgerAmounts, ref \in RefIds :
          LET call == LedgerCall(op, u, a, IF op = "process_payout" THEN MarketId ELSE ref)
              r == LedgerRun(call, db_balances, db_tx)
          IN /\ db_balances' = r.bals
             /\ db_tx' = r.tx
             /\ svc_last' = [op |-> "ledger", call |-> call, ok |-> r.ok,
                             before |-> LedgerBefore]
    /\ led_n' = led_n + 1
    /\ UNCHANGED <<db_market, db_orders, db_trades, markets, markets_cache, svc_n, svc_cnt,
                   led_proc, led_batch, eng_vars, conc_vars, set_vars>>

\* A BalanceService call that returns Err because one of its writes failed.
LedgerCallWriteFails ==
    /\ led_n < MaxLedgerOps
    /\ \E op \in LedgerOps, u \in Users, a \in LedgerAmounts, ref \in RefIds,
          failing \in LedgerWrites :
          LET call == LedgerCall(op, u, a, IF op = "process_payout" THEN MarketId ELSE ref)
              r == LedgerRunWriteFails(call, db_balances, db_tx, failing)
          IN /\ r.reached
             /\ db_balances' = r.bals
             /\ db_tx' = r.tx
             /\ svc_last' = [op |-> "ledger", call |-> call, ok |-> FALSE,
                             before |-> LedgerBefore]
    /\ led_n' = led_n + 1
    /\ UNCHANGED <<db_market, db_orders, db_trades, markets, markets_cache, svc_n, svc_cnt,
                   led_proc, led_batch, eng_vars, conc_vars, set_vars>>

LedgerCallsNext ==
    \/ LedgerCallRecorded
    \/ LedgerCallWriteFails

SpecLedgerCalls == Init /\ [][LedgerCallsNext]_vars

\* What a ledger operation of amount a is to do to (available, reserved).
AvailableDelta(op, a) ==
    CASE op \in {"add_funds", "release_funds", "process_payout"} -> a
      [] op \in {"withdraw_funds", "reserve_funds"} -> 0 - a

ReservedDelta(op, a) ==
    CASE op = "reserve_funds" -> a
      [] op = "release_funds" -> 0 - a
      [] OTHER -> 0

SameBalances(bals1, bals2) ==
    \A u \in Users :
        /\ bals1[u].available_balance = bals2[u].available_balance
        /\ bals1[u].reserved_balance = bals2[u].reserved_balance

\* C24: a ledger operation that succeeds changes the stored balance of its user and
\* appends exactly one BalanceTransaction of its type, amount and reference; one that
\* returns an error leaves the stored balances and the ledger as they were.
C24_AtomicPair ==
    svc_last.op = "ledger" =>
       LET call == svc_last.call
           was == svc_last.before
       IN IF svc_last.ok
          THEN /\ db_tx = Append(was.tx, TxOf(call))
               /\ db_balances[call.user].available_balance
                     = was.bals[call.user].available_balance
                          + AvailableDelta(call.op, call.amount)
               /\ db_balances[call.user].reserved_balance
                     = was.bals[call.user].reserved_balance
                          + ReservedDelta(call.op, call.amount)
               /\ \A u \in Users \ {call.user} : db_balances[u] = was.bals[u]
          ELSE /\ db_tx = was.tx
               /\ SameBalances(db_balances, was.bals)

\* C25: every ledger operation of an amount <= 0 returns an error and leaves the user's
\* balance and the ledger unchanged.
C25_RejectsNonPositive ==
    (svc_last.op = "ledger" /\ svc_last.call.amount <= 0) =>
       /\ ~svc_last.ok
       /\ db_tx = svc_last.before.tx
       /\ SameBalances(db_balances, svc_last.before.bals)

\* ------------------------------------------------------------------ cancelling a partly filled order
\* submit_order does not match ("matching logic to be implemented later") and no code
\* saves an order after Order::apply_fill, so a PartiallyFilled row of table orders is
\* one written by the matching step to come. It is taken as an input: a fill smaller
\* than the remaining quantity, applied to the persisted order and to its cached copy.
SvcSubmitLots == SvcSubmitWith(Prices, {MaxQty})

SvcRecordFill ==
    /\ \E id \in DOMAIN db_orders, q \in 1 .. MaxQty :
          /\ is_active(db_orders[id])
          /\ q < db_orders[id].remaining_quantity
          /\ db_orders' = MapSet(db_orders, id, apply_fill(db_orders[id], q))
          /\ markets_cache' =
                IF markets_cache.present
                THEN Cached([markets_cache.market EXCEPT !.order_book =
                                update_order(@, apply_fill(db_orders[id], q)).book])
                ELSE markets_cache
    /\ svc_last' = OtherCall
    /\ UNCHANGED <<db_balances, db_tx, db_market, db_trades, markets, svc_n, svc_cnt,
                   eng_vars, led_n, led_proc, led_batch, conc_vars, set_vars>>

CancelPartialNext ==
    \/ SvcCreateMarket
    \/ SvcDeposit
    \/ SvcSubmitLots
    \/ SvcRecordFill
    \/ SvcCancelOrder

SpecCancelPartial == Init /\ [][CancelPartialNext]_vars

\* C26: a cancel_order that succeeds on an active order lowers the user's reserved
\* balance and raises the available balance by the reservation of the remaining
\* quantity: price x remaining for a Buy, remaining for a Sell.
C26_CancelReleasesRemaining ==
    (svc_last.op = "cancel_order" /\ svc_last.ok) =>
       LET order == svc_last.before.orders[svc_last.order_id]
           u == order.user_id
       IN /\ db_balances[u].reserved_balance
                = svc_last.before.bals[u].reserved_balance - refund_amount(order)
          /\ db_balances[u].available_balance
                = svc_last.before.bals[u].available_balance + refund_amount(order)

\* C27: a submit_order on a market that close_market has closed (the persisted status is
\* Closed) is rejected and adds no order to the market's book in memory, whatever
\* get_market and submit_order calls came before the close.
C27_ClosedMarketRejects ==
    (/\ svc_last.op = "submit_order"
     /\ svc_last.before.mkt.present
     /\ svc_last.before.mkt.status = "Closed")
       => /\ ~svc_last.ok \/ svc_last.error
          /\ svc_last.before.cache.present
                => markets_cache.market.order_book = svc_last.before.cache.market.order_book

\* ------------------------------------------------------------------ the life of a market
\* SettlementService::close_market, run without interruption and without repository
\* failure.
close_market(T) ==
    IF ~T.mkt.present THEN [ok |-> FALSE, T |-> T]
    ELSE IF T.mkt.status # "Open" THEN [ok |-> FALSE, T |-> T]
    ELSE [ok |-> TRUE, T |-> [T EXCEPT !.mkt = Market_close(T.mkt)]]

\* A close_market call changes the tables at most once per market, so it needs no bound.
SetCloseMarket ==
    /\ LET r == close_market(Tables)
       IN /\ SetTables(r.T)
          /\ set_last' = [op |-> "close_market", ok |-> r.ok, before |-> Tables,
                          after |-> r.T]
    /\ UNCHANGED <<db_trades, markets, markets_cache, svc_n, svc_cnt, svc_last, eng_vars,
                   led_n, led_proc, led_batch, conc_vars, set_n, set_proc>>

LifecycleNext ==
    \/ SvcCreateMarket
    \/ SetRecordTrade
    \/ SetCloseMarket
    \/ SetResolveMarket
    \/ SetCancelMarket

SpecLifecycle == Init /\ [][LifecycleNext]_vars

ResolvedStatus(outcome) == IF outcome = "Yes" THEN "ResolvedYes" ELSE "ResolvedNo"

\* C28: close_market succeeds exactly when the market is Open and then only sets its
\* status to Closed; resolve_market succeeds exactly when the market is Closed and then
\* sets the status to ResolvedYes or ResolvedNo after the outcome, with the resolution
\* recorded; a call that fails changes neither the market nor a balance.
C28_CloseAndResolveGuards ==
    LET was == set_last.before
        now == set_last.after
    IN /\ set_last.op = "close_market" =>
            /\ set_last.ok <=> (was.mkt.present /\ was.mkt.status = "Open")
            /\ set_last.ok => now = [was EXCEPT !.mkt.status = "Closed"]
            /\ ~set_last.ok => now = was
       /\ set_last.op = "resolve_market" =>
            /\ set_last.ok <=> (was.mkt.present /\ was.mkt.status = "Closed")
            /\ set_last.ok => /\ now.mkt.status = ResolvedStatus(set_last.outcome)
                              /\ now.mkt.resolution = set_last.outcome
                              /\ now.orders = was.orders
            /\ ~set_last.ok => now = was

\* resolve_market succeeds on a Closed market with a trade to pay.
C28_Witness ==
    /\ set_last.op = "resolve_market"
    /\ set_last.ok
    /\ set_last.before.mkt.status = "Closed"
    /\ set_last.after.bals # set_last.before.bals

\* The prices at which a queue holds at least one order.
RestingPrices(m) == {p \in DOMAIN m : m[p] # << >>}

Highest(S) == IF S = {} THEN "None" ELSE CHOOSE p \in S : \A q \in S : q <= p

Lowest(S) == IF S = {} THEN "None" ELSE CHOOSE p \in S : \A q \in S : p <= q

\* C29: for each outcome, the best bid the book reports is the highest price among the
\* outcome's resting bids and the best ask is the lowest price among its resting asks
\* (none when there is no resting order).
C29_BestPrices ==
    /\ get_best_prices(market.order_book, "Yes")
          = <<Highest(RestingPrices(market.order_book.yes_bids)),
              Lowest(RestingPrices(market.order_book.yes_asks))>>
    /\ get_best_prices(market.order_book, "No")
          = <<Highest(RestingPrices(market.order_book.no_bids)),
              Lowest(RestingPrices(market.order_book.no_asks))>>

\* ------------------------------------------------------------------ creating a market twice
\* handle_create_market -> OrderService::create_market(Market::new(MarketId, ..)) when a
\* market of that id is persisted: save_market (an upsert) comes before the test of the
\* in-memory map.
SvcCreateExisting ==
    /\ db_market.present
    /\ svc_cnt.creates < MaxCreates + MaxRecreates
    /\ db_market' = save_market(Market_new)
    /\ markets' = IF markets.present THEN markets ELSE Cached(Market_new)
    /\ svc_cnt' = [svc_cnt EXCEPT !.creates = @ + 1]
    /\ svc_last' = [op |-> "create_market", ok |-> ~markets.present, before |-> Before,
                    markets |-> markets]
    /\ UNCHANGED <<db_balances, db_tx, db_orders, db_trades, markets_cache, svc_n,
                   eng_vars, led_n, led_proc, led_batch, conc_vars, set_vars>>

RecreateNext ==
    \/ SvcCreateMarket
    \/ SvcDeposit
    \/ SvcSubmitOrder
    \/ SvcCloseMarket
    \/ SvcCreateExisting

SpecRecreate == Init /\ [][RecreateNext]_vars

\* C30: a create_market with the id of an existing market fails and leaves the market's
\* persisted record and its in-memory entry as they were.
C30_DuplicateCreate ==
    svc_last.op = "create_market" =>
       /\ ~svc_last.ok
       /\ db_market = svc_last.before.mkt
       /\ markets = svc_last.markets

\* ------------------------------------------------------------------ the trade events
\* The task spawned by get_trade_receiver is the only receiver of the channel. One turn
\* of its loop receives a trade and broadcasts its Trade event, then awaits
\* calculate_market_price and broadcasts the PriceUpdate event when that call succeeds.
WsProcessOrder == EngProcessWith(MaxWsOrders, SvcOutcomes, 1 .. MaxQty)

WsRecvTrade ==
    /\ ws_task.pc = "recv"
    /\ trade_chan # << >>
    /\ LET r == mpsc_recv(trade_chan)
       IN /\ trade_chan' = r.rest
          /\ ws_events' = Append(ws_events, TradeEvent(r.trade))
          /\ ws_task' = [pc |-> "price", trade |-> r.trade]
    /\ UNCHANGED <<market, eng_trades, eng_last, eng_n, led_vars, svc_vars, bot_vars>>

WsPriceUpdate ==
    /\ ws_task.pc = "price"
    /\ \E rank \in Ranks :
          LET r == calculate_market_price(db_market, db_orders, rank, ws_task.trade.outcome)
          IN ws_events' = IF r.ok
                          THEN Append(ws_events, PriceUpdateEvent(ws_task.trade, r.price))
                          ELSE ws_events
    /\ ws_task' = [pc |-> "recv"]
    /\ UNCHANGED <<market, eng_trades, eng_last, eng_n, trade_chan, led_vars, svc_vars, bot_vars>>

WsNext ==
    \/ SvcCreateMarket
    \/ WsProcessOrder
    \/ WsRecvTrade
    \/ WsPriceUpdate

SpecWs == Init /\ [][WsNext]_vars

\* The positions of the Trade events among the broadcast events.
TradeEventsAt == {i \in 1 .. Len(ws_events) : ws_events[i].type = "Trade"}

\* The position of a trade among the trades the engine made (no two trades name the
\* same pair of orders).
MadeAt(trade) == CHOOSE k \in 1 .. Len(eng_trades) : eng_trades[k] = trade

\* C31: the Trade events of the market are broadcast in the order in which the engine
\* made the trades (a trade dropped by the full channel is missing, none is out of
\* order or repeated), and every PriceUpdate event follows the Trade event of the trade
\* that caused it.
C31_EventOrder ==
    /\ \A i \in TradeEventsAt :
          \E k \in 1 .. Len(eng_trades) : eng_trades[k] = ws_events[i].trade
    /\ \A i, j \in TradeEventsAt :
          i < j => MadeAt(ws_events[i].trade) < MadeAt(ws_events[j].trade)
    /\ \A j \in 1 .. Len(ws_events) :
          ws_events[j].type = "PriceUpdate" =>
             \E i \in TradeEventsAt : i < j /\ ws_events[i].trade = ws_events[j].cause

\* Three trades were made, the channel dropped one of them, and the events of the other
\* two are out, with a price update.
C31_Witness ==
    /\ Len(eng_trades) = 3
    /\ trade_chan = << >>
    /\ ws_task.pc = "recv"
    /\ Cardinality(TradeEventsAt) = 2
    /\ \E j \in 1 .. Len(ws_events) : ws_events[j].type = "PriceUpdate"

\* ------------------------------------------------------------------ emptied price levels
\* C32: the book reports no price level whose queue is empty: a price returned as best
\* bid or best ask has an order resting at it, and get_mid_price of an outcome with no
\* resting order is None.
C32_NoEmptyLevelReported ==
    \A oc \in Outcomes :
        LET book == market.order_book
            bids == BidsOf(book, oc)
            asks == AsksOf(book, oc)
            bp == get_best_prices(book, oc)
        IN /\ DOMAIN bids # {} => bids[bp[1]] # << >>
           /\ DOMAIN asks # {} => asks[bp[2]] # << >>
           /\ (RestingPrices(bids) = {} /\ RestingPrices(asks) = {})
                 => DOMAIN bids = {} /\ DOMAIN asks = {} /\ get_mid_price(book, oc) = "None"

\* ------------------------------------------------------------------ conservation of quantity
RECURSIVE RemainingSum(_)
RemainingSum(orders) ==
    IF orders = << >> THEN 0
    ELSE Head(orders).remaining_quantity + RemainingSum(Tail(orders))

\* The remaining quantity resting in one queue of the book.
RemainingIn(m) == RemainingSum(LevelsFlat(m, KeysAsc(DOMAIN m)))

\* The remaining quantity of order id in a queue, 0 when the order is not queued.
RemainingOf(m, id) ==
    IF \E o \in AllOrdersOf(m) : o.order_id = id
    THEN OrderWithId(m, id).remaining_quantity
    ELSE 0

\* C33: for every process_order call, the quantities of the trades it returns add up to
\* the decrease of the taker's remaining quantity and to the decrease of the remaining
\* quantity resting in the opposing queue, and each resting order's remaining quantity
\* decreases by the sum of the trades that name its id.
C33_QuantityConserved ==
    eng_last.op = "process_order" =>
        /\ TotalQty(eng_last.trades)
              = eng_last.input.remaining_quantity - eng_last.order.remaining_quantity
        /\ TotalQty(eng_last.trades) = RemainingIn(OppBefore) - RemainingIn(OppAfter)
        /\ \A o \in AllOrdersOf(OppBefore) :
              o.remaining_quantity - RemainingOf(OppAfter, o.order_id)
                 = FilledQty(eng_last.trades, o.order_id, eng_last.input.side)

\* A taker of quantity 2 was matched against two resting orders, one trade each.
C33_Witness ==
    /\ Matched
    /\ Len(eng_last.trades) = 2
    /\ eng_last.input.quantity = 2
    /\ eng_last.order.remaining_quantity = 0
    /\ eng_last.trades[1].quantity = 1
    /\ MakerId(eng_last.trades[1], eng_last.input.side)
          # MakerId(eng_last.trades[2], eng_last.input.side)

\* ------------------------------------------------------------------ crossed books
\* C34: from an empty book, under process_order and cancel_order, there are never a
\* resting bid of one user and a resting ask of another user on the same outcome with
\* bid price >= ask price.
C34_NotCrossed ==
    \A oc \in Outcomes :
        \A b \in AllOrdersOf(BidsOf(market.order_book, oc)) :
            \A a \in AllOrdersOf(AsksOf(market.order_book, oc)) :
                b.user_id # a.user_id => b.price < a.price

\* A call that made a trade left a bid of one user and an ask of another user resting
\* on the same outcome.
C34_Witness ==
    /\ Matched
    /\ eng_last.trades # << >>
    /\ \E oc \in Outcomes :
          \E b \in AllOrdersOf(BidsOf(market.order_book, oc)) :
             \E a \in AllOrdersOf(AsksOf(market.order_book, oc)) :
                b.user_id # a.user_id

\* ------------------------------------------------------------------ refunds of an order
\* cancel_order and cancel_market on the orders users submitted; no market is resolved,
\* so every SettlementPayout row is a refund made by cancel_market.
RefundNext ==
    \/ SvcCreateMarket
    \/ SvcDeposit
    \/ SvcSubmitOrder
    \/ SvcCancelOrder
    \/ SetCancelMarket

SpecRefund == Init /\ [][RefundNext]_vars

\* The sum of the amounts of the transactions of a user that have one of the types.
RECURSIVE TxSum(_, _, _)
TxSum(tx, user, types) ==
    IF tx = << >> THEN 0
    ELSE (IF Head(tx).user_id = user /\ Head(tx).transaction_type \in types
          THEN Head(tx).amount ELSE 0)
         + TxSum(Tail(tx), user, types)

\* C35: an order is refunded at most once: what cancel_order (OrderRelease) and
\* cancel_market (SettlementPayout) together return to a user's available balance never
\* exceeds what submit_order reserved for the user's orders.
C35_RefundedAtMostOnce ==
    \A u \in Users :
        TxSum(db_tx, u, {"OrderRelease", "SettlementPayout"})
           <= TxSum(db_tx, u, {"OrderReserve"})

\* ------------------------------------------------------------------ two resolutions at once
\* The SettlementPayout rows booked for user u. In SpecSettleConc no order is ever
\* submitted, so cancel_market refunds nothing and every such row is a payout of a
\* resolve_market call.
PayoutRows(u) ==
    {k \in 1 .. Len(db_tx) :
        db_tx[k].user_id = u /\ db_tx[k].transaction_type = "SettlementPayout"}

\* C36: when resolve_market calls for the same Closed market overlap, payouts are
\* credited as if exactly one call ran: process_payouts pays a user at most once per
\* call, so no user has two payouts of the market.
C36_PaidOnce ==
    \A u \in Users : Cardinality(PayoutRows(u)) <= 1

\* ------------------------------------------------------------------ resolve_market returning Err
\* The repository and ledger calls of resolve_market that can return Err.
ResolveFailures == {"get_market", "save_market", "get_trades_for_market", "process_payout"}

\* process_payouts when its nth process_payout call returns Err (the call fails at its
\* first write and `?` ends the loop); failed tells whether that call was reached.
RECURSIVE process_payouts_failing(_, _, _, _, _, _)
process_payouts_failing(trades, winning_outcome, processed, bals, tx, nth) ==
    IF trades = << >> THEN [failed |-> FALSE, bals |-> bals, tx |-> tx]
    ELSE LET trade == Head(trades) IN
         IF trade.outcome # winning_outcome
         THEN process_payouts_failing(Tail(trades), winning_outcome, processed, bals, tx, nth)
         ELSE LET pays_buyer == trade.buyer_id \notin processed
                  b == IF pays_buyer
                       THEN LedgerRun(LedgerCall("process_payout", trade.buyer_id,
                                                 BuyerPayout(trade), MarketId), bals, tx)
                       ELSE [bals |-> bals, tx |-> tx]
                  nth1 == IF pays_buyer THEN nth - 1 ELSE nth
                  processed1 == processed \cup {trade.buyer_id}
                  pays_seller == trade.seller_id \notin processed1
                  sl == IF pays_seller
                        THEN LedgerRun(LedgerCall("process_payout", trade.seller_id,
                                                  SellerPayout(trade), MarketId),
                                       b.bals, b.tx)
                        ELSE [bals |-> b.bals, tx |-> b.tx]
                  nth2 == IF pays_seller THEN nth1 - 1 ELSE nth1
              IN IF pays_buyer /\ nth = 1
                 THEN [failed |-> TRUE, bals |-> bals, tx |-> tx]
                 ELSE IF pays_seller /\ nth1 = 1
                 THEN [failed |-> TRUE, bals |-> b.bals, tx |-> b.tx]
                 ELSE process_payouts_failing(Tail(trades), winning_outcome,
                                              processed1 \cup {trade.seller_id},
                                              sl.bals, sl.tx, nth2)

\* SettlementService::resolve_market when the call `failing` returns Err; reached tells
\* whether the call got as far as that call.
resolve_market_fails(outcome, T, failing, nth) ==
    LET refused == ~T.mkt.present \/ is_resolved(T.mkt) \/ T.mkt.status # "Closed"
        saved == [T EXCEPT !.mkt = Market_resolve(T.mkt, outcome)]
        pay == process_payouts_failing(T.trades, outcome, {}, T.bals, T.tx, nth)
    IN IF failing = "get_market" THEN [reached |-> TRUE, T |-> T]
       ELSE IF refused THEN [reached |-> FALSE, T |-> T]
       ELSE IF failing = "save_market" THEN [reached |-> TRUE, T |-> T]
       ELSE IF failing = "get_trades_for_market" THEN [reached |-> TRUE, T |-> saved]
       ELSE [reached |-> pay.failed,
             T |-> [saved EXCEPT !.bals = pay.bals, !.tx = pay.tx]]

\* A resolve_market call that returns Err because one of its calls failed.
SetResolveFails ==
    /\ set_n < MaxSettles
    /\ \E outcome \in Outcomes, failing \in ResolveFailures, nth \in 1 .. MaxPayoutCalls :
          LET r == resolve_market_fails(outcome, Tables, failing, nth)
          IN /\ r.reached
             /\ SetTables(r.T)
             /\ set_last' = [op |-> "resolve_market", outcome |-> outcome, ok |-> FALSE,
                             before |-> Tables, after |-> r.T, failing |-> failing]
    /\ set_n' = set_n + 1
    /\ UNCHANGED <<db_trades, markets, markets_cache, svc_n, svc_cnt, svc_last, eng_vars,
                   led_n, led_proc, led_batch, conc_vars, set_proc>>

ResolveFailNext ==
    \/ SvcCreateMarket
    \/ SvcCloseMarket
    \/ SetRecordTrade
    \/ SetResolveMarket
    \/ SetResolveFails

SpecResolveFail == Init /\ [][ResolveFailNext]_vars

\* C37: resolve_market is all-or-nothing: when it returns an error, the persisted market
\* is as it was before the call (still Closed when the call got past the checks) and no
\* balance has been credited.
C37_AllOrNothing ==
    (set_last.op = "resolve_market" /\ ~set_last.ok) =>
        /\ set_last.after.mkt = set_last.before.mkt
        /\ set_last.after.bals = set_last.before.bals

\* ------------------------------------------------------------------ funds under submit and cancel
\* submit_order calls interleaved at their awaits, with cancel_order calls between
\* their steps. Deposits are made before the first submission.
FundsSetup ==
    /\ svc_n = 0
    /\ SvcCreateMarket \/ SvcDeposit

\* OrderService::cancel_order between two steps of the submit_order calls in flight
FundsCancelOrder ==
    /\ \E id \in 1 .. svc_n, rank \in Ranks :
          LET r == cancel_order(id, World, rank)
          IN /\ SetWorld(r.W)
             /\ svc_last' = [op |-> "cancel_order", order_id |-> id, ok |-> r.ok]
    /\ UNCHANGED <<db_trades, markets, svc_n, svc_cnt, eng_vars, led_n, led_proc, led_batch,
                   conc_vars, set_vars>>

\* The submissions are Buy orders at one price; another side or price differs only in
\* the amount reserved.
FundsStart(c) == SubStartWith(c, {"Buy"}, {40})

FundsNext ==
    \/ FundsSetup
    \/ FundsCancelOrder
    \/ \E c \in Callers :
          \/ FundsStart(c)
          \/ SubReserve(c)
          \/ SubSaveOrder(c)
          \/ SubCacheRead(c)
          \/ SubRepoLoad(c)
          \/ SubCachePush(c)
          \/ SubRelease(c)
          \/ SubLock(c)
          \/ SubSaveMarket(c)
          \/ SubWriteBack(c)

SpecFunds == Init /\ [][FundsNext]_vars

OtherOutcome(outcome) == IF outcome = "Yes" THEN "No" ELSE "Yes"

\* The taker was queued by the call.
Queued == Matched /\ eng_last.resting

\* C39: process_order for an order on outcome o leaves the two queues of the other
\* outcome unchanged, changes the taker's own queue only by appending the taker at the
\* tail of its price level, and changes the opposing queue only by reducing remaining
\* of, or removing, orders that received a fill; when the market is not Open it changes
\* no queue, returns no trade and returns the order with status Rejected.
C39_Frame ==
    eng_last.op = "process_order" =>
       LET input == eng_last.input
           before == eng_last.before.order_book
           after == market.order_book
           other == OtherOutcome(input.outcome)
           ts == eng_last.trades
       IN /\ BidsOf(after, other) = BidsOf(before, other)
          /\ AsksOf(after, other) = AsksOf(before, other)
          /\ \A q \in Prices :
                LevelOf(OwnAfter, q)
                   = IF Queued /\ q = input.price
                     THEN Append(LevelOf(OwnBefore, q), eng_last.order)
                     ELSE LevelOf(OwnBefore, q)
          /\ DOMAIN OwnAfter \subseteq Prices
          /\ \A o \in AllOrdersOf(OppAfter) :
                \E b \in AllOrdersOf(OppBefore) :
                   /\ b.order_id = o.order_id
                   /\ \/ o = b
                      \/ /\ FilledQty(ts, b.order_id, input.side) > 0
                         /\ o.remaining_quantity < b.remaining_quantity
                         /\ o = [b EXCEPT !.remaining_quantity = o.remaining_quantity,
                                          !.status = o.status]
          /\ \A b \in AllOrdersOf(OppBefore) :
                ~HoldsId(OppAfter, b.order_id) => FilledQty(ts, b.order_id, input.side) > 0
          /\ ~Matched =>
                /\ after = before
                /\ ts = << >>
                /\ eng_last.order = [input EXCEPT !.status = "Rejected"]

\* A taker traded with a resting order and what was left of it was queued behind an
\* earlier order of its own price level.
C39_Witness ==
    /\ Queued
    /\ eng_last.trades # << >>
    /\ Len(LevelOf(OwnAfter, eng_last.input.price)) = 2
    /\ LevelOf(OwnAfter, eng_last.input.price)[2] = eng_last.order

\* ------------------------------------------------------------------ the bots
\* The run_bot_loop tasks that have not ended.
LiveLoops == {l \in BotLoopIds : bot_loops[l].pc \in {"tick", "market"}}

Spawned == {l \in BotLoopIds : bot_loops[l].pc # "none"}

BotFrame ==
    UNCHANGED <<market, eng_trades, eng_last, eng_n, ws_vars, led_n, led_proc, led_batch,
                db_trades, markets, svc_cnt, svc_last, conc_vars, set_vars>>

\* BotService::start_bot: Err while the market has an entry in active_bots, else the
\* entry is inserted and a run_bot_loop task is spawned. stopped and resumed remember,
\* for the properties, that stop_bot removed the entry while the loop was alive, and that
\* at a tick after that the loop found an entry and went on to submit orders.
BotStart ==
    /\ \E strategy \in BotStrategies :
          IF active_bots.present
          THEN /\ bot_last' = [op |-> "start_bot", ok |-> FALSE]
               /\ UNCHANGED <<active_bots, bot_loops>>
          ELSE /\ Cardinality(Spawned) < MaxBotLoops
               /\ active_bots' = Registered(strategy)
               /\ bot_loops' = [bot_loops EXCEPT ![Cardinality(Spawned) + 1] =
                                   [pc |-> "tick", strategy |-> strategy,
                                    stopped |-> FALSE, resumed |-> FALSE]]
               /\ bot_last' = [op |-> "start_bot", ok |-> TRUE]
    /\ UNCHANGED <<db_balances, db_tx, db_orders, db_market, markets_cache, svc_n>>
    /\ BotFrame

\* BotService::stop_bot
BotStop ==
    /\ IF active_bots.present
       THEN /\ active_bots' = NoBot
            /\ bot_loops' = [l \in BotLoopIds |->
                                IF l \in LiveLoops THEN [bot_loops[l] EXCEPT !.stopped = TRUE]
                                ELSE bot_loops[l]]
            /\ bot_last' = [op |-> "stop_bot", ok |-> TRUE]
       ELSE /\ bot_last' = [op |-> "stop_bot", ok |-> FALSE]
            /\ UNCHANGED <<active_bots, bot_loops>>
    /\ UNCHANGED <<db_balances, db_tx, db_orders, db_market, markets_cache, svc_n>>
    /\ BotFrame

\* run_bot_loop: interval.tick() has elapsed; the loop ends unless active_bots has an
\* entry for its market.
BotTick(l) ==
    /\ bot_loops[l].pc = "tick"
    /\ bot_loops' = [bot_loops EXCEPT
                        ![l].pc = IF active_bots.present THEN "market" ELSE "done",
                        ![l].resumed = @ \/ (bot_loops[l].stopped /\ active_bots.present)]
    /\ UNCHANGED <<active_bots, bot_last, db_balances, db_tx, db_orders, db_market,
                   markets_cache, svc_n>>
    /\ BotFrame

\* run_bot_loop: get_market, then execute_strategy and back to the tick, or, when the
\* market cannot be read, the entry is removed and the loop ends.
BotRun(l) ==
    /\ bot_loops[l].pc = "market"
    /\ \E rank \in Ranks, choice \in StrategyChoices(bot_loops[l].strategy) :
          LET got == get_market(markets_cache, db_market, db_orders, rank)
          IN IF got.ok
             THEN LET r == execute_strategy(bot_loops[l].strategy, got.market,
                                            [World EXCEPT !.cache = got.cache], rank,
                                            svc_n + 1, choice)
                  IN /\ SetWorld(r.W)
                     /\ svc_n' = IF DOMAIN r.W.orders = DOMAIN db_orders THEN svc_n
                                 ELSE svc_n + r.created
                     /\ bot_loops' = [bot_loops EXCEPT ![l].pc = "tick"]
                     /\ UNCHANGED active_bots
             ELSE /\ active_bots' = NoBot
                  /\ bot_loops' = [bot_loops EXCEPT ![l].pc = "done"]
                  /\ markets_cache' = got.cache
                  /\ UNCHANGED <<db_balances, db_tx, db_orders, db_market, svc_n>>
    /\ UNCHANGED bot_last
    /\ BotFrame

BotsNext ==
    \/ SvcCreateMarket
    \/ BotStart
    \/ BotStop
    \/ \E l \in BotLoopIds : BotTick(l)
    \/ \E l \in BotLoopIds : BotRun(l)

SpecBots == Init /\ [][BotsNext]_vars

\* tokio runs every spawned task and the interval of a loop keeps ticking: weak fairness
\* of the tick and of the turn that follows it. BotRun(l) is enabled exactly when loop l
\* is at "market" and always moves it on, so its weak fairness is that the loop is not
\* at "market" for ever.
SpecBotsFair ==
    /\ SpecBots
    /\ \A l \in BotLoopIds : WF_vars(BotTick(l)) /\ []<>(bot_loops[l].pc # "market")

\* C40: every bot loop whose market was removed by stop_bot terminates at its next tick
\* instead of going on to submit orders, and so eventually terminates, even when
\* start_bot is called again for the market before that tick.
C40_StoppedLoopEnds ==
    \A l \in BotLoopIds :
        /\ [](~bot_loops[l].resumed)
        /\ [](bot_loops[l].stopped => <>(bot_loops[l].pc = "done"))

====
